---------------------------- MODULE Spec2Model ----------------------------
(***************************************************************************)
(* A model of the BPMN process runtime of ntankovic/bpmn-parser:           *)
(*   src/bpmn_types.py  element behaviours (tasks, gateways, call activity)*)
(*   src/server.py      the HTTP boundary (instances, inbox, search)       *)
(* The per-instance scheduler (bpmn_model.py), the expression evaluator    *)
(* (utils/common.py) and the configuration (env.py) are not part of the    *)
(* sources at hand; where a step of them is needed it is modelled from     *)
(* spec.md and marked so in the comments.                                  *)
(*                                                                         *)
(* The module holds these state machines over disjoint groups of variables:*)
(*   Spec        parallel gateway join shared by the instances of a model  *)
(*   SpecSearch  GET /instance, the instance search                        *)
(*   SpecTasks   userTask / receiveTask / serviceTask run                  *)
(*   SpecCall    callActivity.run_subprocess                               *)
(*   SpecIsolation  run_subprocess over a heap of dict objects (references)  *)
(*   SpecRegistry   HTTP handlers, instance table, inbox, journal, restart   *)
(***************************************************************************)
EXTENDS Integers, FiniteSets, Sequences, TLC

\* ------------------------------------------------------------------ bounds
MaxIncoming == 3
MaxInstances == 2
MaxRounds == 2
MaxClauses == 2
MaxChildSteps == 2
MaxMessages == 2
MaxRestarts == 1
MaxSearches == 1

VARIABLES
    \* --- parallel gateway (Spec)
    element_incoming,   \* number of <bpmn:incoming> children of the gateway's XML element
    incoming,           \* ParallelGateway.incoming: the join counter, a field of the model's element
    created,            \* ids of the instances created from the model
    on_branch,          \* per instance: tokens on the incoming edges of the join
    past_join,          \* per instance: tokens emitted by the join, not yet consumed
    ended,              \* per instance: an endEvent was entered
    rounds,             \* per instance: how often it looped back to the join
    birth_counter,      \* per instance: the join counter it found when it was created
    arrivals,           \* per instance: its tokens that have arrived at the join since
                        \* the join last emitted for it (or since it was created)
    arrived,            \* the latest arrival: the instance, and how many of its tokens
                        \* had arrived at the join with it
    outcome,            \* outcome of the latest arrival: "none" | "Immediate" | "Done"
    gw_state,           \* per instance: its state, "none" | "running" | "finished"
    \* --- instance search (SpecSearch)
    instances,          \* m.instances of the loaded models: instance id -> instance.variables
    request,            \* the latest GET /instance request
    response,           \* its response: status and the ids of the instances returned
    searched,           \* instance.variables as the request's loops over m.instances read them
    search_journal,     \* db_connector: per instance id its journaled (pending, variables, state)
    search_pc,          \* the handler's position: "idle" | "lookup" (awaiting get_model_for_instance)
    search_ids,         \* ids computed by the request (server.py 198)
    search_data,        \* ids whose to_json() the request has appended to data, in order
    search_lookups,     \* the get_model_for_instance calls the request has made, in order
    search_row,         \* the journal row read by the lookup that is suspended (server.py 46)
    searches,           \* number of GET /instance requests received so far
    \* --- task behaviours (SpecTasks)
    variables,          \* instance.variables, the map handed to an element's run
    prev_variables,     \* instance.variables before the latest run
    input_variables,    \* per service task: self.input_variables (the run resolves its maps in place)
    last,               \* the latest run: element kind, element, payload or HTTP response
    result,             \* what the latest run did: "none" | "True" | "False" | "raised"
    http_requests,      \* HTTP requests made by the latest run
    sent,               \* method and JSON body of the request made by the latest run
    instance_state,     \* state of the owning instance
    task_pc,            \* position of the run: "idle" | "requesting" | "decoding"
    other_sent,         \* JSON body of the request another instance made from the same task
    \* --- call activity (SpecCall)
    parent_variables,               \* the parent instance's variables
    prev_parent_variables,          \* the parent's variables before the latest call
    call_activity,                  \* the callActivity element of the latest call
    inital_variables,               \* the variables the child instance was created with
    finished_subprocess_variables,  \* what the child's run returned: its variables, or None
    new_vars,                       \* the child's variables after transform_output_variables
    call_result,                    \* "none" | "True" | "False" | "raised"
    parent_state,                   \* state of the parent instance
    parent_at_return,               \* the parent's variables when the child's run returned
    call_pc,                        \* position of run_subprocess: "idle" | "child_running"
    \* --- call activity over object references (SpecIsolation)
    iso_heap,           \* the dict objects: reference -> dict
    iso_before,         \* the parent's variables, by value, before the call
    iso_child,          \* reference of the child instance's variables, 0 before it exists
    iso_call,           \* the callActivity element of the call
    iso_final,          \* the child's variables, by value, when its run returned
    iso_steps,          \* number of writes the child has made
    iso_pc,             \* "idle" | "running" | "raised" | "failed" | "returned"
    \* --- registry, inbox and journal (SpecRegistry)
    server_up,          \* run_as_server has run and the handlers serve requests
    restarts,           \* number of times the server process was stopped
    journal,            \* db_connector: per instance id its journaled (pending, variables, state)
                        \* and its unconsumed message_received entries
    live,               \* ids in the instance table of the loaded model (m.instances)
    mem,                \* per live instance its in-memory (pending, variables, state)
    in_queue,           \* per instance its inbox, instance.in_queue
    loops,              \* per instance: run tasks started by asyncio.create_task(instance.run())
    delivering,         \* per instance: the messages its loops have popped and not yet
                        \* delivered or dropped
    next_msg,           \* number of requests naming an instance received so far; a message
                        \* is named by the number of its request
    delivered,          \* per message: how often it was delivered to a vertex
    last_pop,           \* the latest message popped by a scheduler loop and what became of it
    last_lookup,        \* the latest get_model_for_instance call
    auto_receive,       \* the handle_auto_receive calls suspended before their lookup
    model_path,         \* db_connector: per instance id the model file of its row
    lookups             \* the get_model_for_instance calls suspended at server.py 49, each
                        \* with the journal row it read at line 46

gw_vars == <<element_incoming, incoming, created, on_branch, past_join, ended,
             rounds, birth_counter, arrivals, arrived, outcome, gw_state>>

search_vars == <<instances, request, response, searched, search_journal, search_pc,
                 search_ids, search_data, search_lookups, search_row, searches>>

task_vars == <<variables, prev_variables, input_variables, last, result,
               http_requests, sent, instance_state, task_pc, other_sent>>

call_vars == <<parent_variables, prev_parent_variables, call_activity, inital_variables,
               finished_subprocess_variables, new_vars, call_result, parent_state,
               parent_at_return, call_pc>>

iso_vars == <<iso_heap, iso_before, iso_child, iso_call, iso_final, iso_steps, iso_pc>>

reg_vars == <<server_up, restarts, journal, live, mem, in_queue, loops, delivering,
              next_msg, delivered, last_pop, last_lookup, auto_receive, model_path, lookups>>

vars == <<gw_vars, search_vars, task_vars, call_vars, iso_vars, reg_vars>>

\* what an action of one state machine leaves alone: the other machines
not_gw_vars == <<search_vars, task_vars, call_vars, iso_vars, reg_vars>>
not_search_vars == <<gw_vars, task_vars, call_vars, iso_vars, reg_vars>>
not_task_vars == <<gw_vars, search_vars, call_vars, iso_vars, reg_vars>>
not_call_vars == <<gw_vars, search_vars, task_vars, iso_vars, reg_vars>>
not_iso_vars == <<gw_vars, search_vars, task_vars, call_vars, reg_vars>>
not_reg_vars == <<gw_vars, search_vars, task_vars, call_vars, iso_vars>>

InstanceIds == 1..MaxInstances

\* ======================================================================
\* Parallel gateway: src/bpmn_types.py 465-479
\* ======================================================================

\* Gateway.parse: self.incoming = len(element.findall("bpmn:incoming")).
\* The element is modelled by the number of its <bpmn:incoming> children.
Gateway_parse(n_incoming_children) == n_incoming_children

\* ParallelGateway.add_token: self.incoming -= 1
ParallelGateway_add_token(counter) == counter - 1

\* ParallelGateway.run: return self.incoming == 0
ParallelGateway_run(counter) == counter = 0

\* the tokens of instance i: its pending vertices
pending(i) == on_branch[i] + past_join[i]

\* the main loop after a step (spec.md section 4.5): if pending == {}: state = finished
state_after(tokens_left, state_before) == IF tokens_left = 0 THEN "finished" ELSE state_before

GwInit ==
    /\ element_incoming \in 1..MaxIncoming
    /\ incoming = Gateway_parse(element_incoming)
    /\ created = {}
    /\ on_branch = [i \in InstanceIds |-> 0]
    /\ past_join = [i \in InstanceIds |-> 0]
    /\ ended = [i \in InstanceIds |-> FALSE]
    /\ rounds = [i \in InstanceIds |-> 0]
    /\ birth_counter = [i \in InstanceIds |-> 0]
    /\ arrivals = [i \in InstanceIds |-> 0]
    /\ arrived = [instance |-> 0, tokens |-> 0]
    /\ outcome = "none"
    /\ gw_state = [i \in InstanceIds |-> "none"]

GwIdle ==
    /\ element_incoming = 1
    /\ incoming = 1
    /\ created = {}
    /\ on_branch = [i \in InstanceIds |-> 0]
    /\ past_join = [i \in InstanceIds |-> 0]
    /\ ended = [i \in InstanceIds |-> FALSE]
    /\ rounds = [i \in InstanceIds |-> 0]
    /\ birth_counter = [i \in InstanceIds |-> 0]
    /\ arrivals = [i \in InstanceIds |-> 0]
    /\ arrived = [instance |-> 0, tokens |-> 0]
    /\ outcome = "none"
    /\ gw_state = [i \in InstanceIds |-> "none"]

\* POST /model/{name}/instance (server.py handle_new_instance): an instance of the
\* already parsed model is created and its loop started; the model is parsed once,
\* in create_models, and the instance refers to it (spec.md section 3: Instance.model_ref).
\* Its tokens are routed to the incoming edges of the join.
CreateInstance(i) ==
    /\ i \notin created
    /\ created' = created \cup {i}
    /\ on_branch' = [on_branch EXCEPT ![i] = element_incoming]
    /\ birth_counter' = [birth_counter EXCEPT ![i] = incoming]
    /\ gw_state' = [gw_state EXCEPT ![i] = "running"]
    /\ UNCHANGED <<element_incoming, incoming, past_join, ended, rounds,
                   arrivals, arrived, outcome>>
    /\ UNCHANGED not_gw_vars

\* A token of instance i arrives at the join (spec.md section 4.3, parallelGateway):
\* add_token, then run; TRUE emits the outgoing edges (Immediate), FALSE absorbs
\* the token (Done).
TokenArrives(i) ==
    /\ i \in created
    /\ on_branch[i] > 0
    /\ on_branch' = [on_branch EXCEPT ![i] = @ - 1]
    /\ incoming' = ParallelGateway_add_token(incoming)
    /\ arrived' = [instance |-> i, tokens |-> arrivals[i] + 1]
    /\ IF ParallelGateway_run(incoming')
       THEN /\ outcome' = "Immediate"
            /\ arrivals' = [arrivals EXCEPT ![i] = 0]
            /\ past_join' = [past_join EXCEPT ![i] = @ + 1]
       ELSE /\ outcome' = "Done"
            /\ arrivals' = [arrivals EXCEPT ![i] = @ + 1]
            /\ UNCHANGED past_join
    /\ gw_state' = [gw_state EXCEPT ![i] = state_after(on_branch'[i] + past_join'[i], @)]
    /\ UNCHANGED <<element_incoming, created, ended, rounds, birth_counter>>
    /\ UNCHANGED not_gw_vars

\* A token emitted by the join is routed back to the join's incoming edges
\* (a loop in the process graph): the gateway is re-entered.
ReEnter(i) ==
    /\ i \in created
    /\ past_join[i] > 0
    /\ rounds[i] < MaxRounds
    /\ past_join' = [past_join EXCEPT ![i] = @ - 1]
    /\ on_branch' = [on_branch EXCEPT ![i] = @ + element_incoming]
    /\ rounds' = [rounds EXCEPT ![i] = @ + 1]
    /\ UNCHANGED <<element_incoming, incoming, created, ended, birth_counter,
                   arrivals, arrived, outcome, gw_state>>
    /\ UNCHANGED not_gw_vars

\* A token emitted by the join enters the endEvent.
EnterEnd(i) ==
    /\ i \in created
    /\ past_join[i] > 0
    /\ past_join' = [past_join EXCEPT ![i] = @ - 1]
    /\ ended' = [ended EXCEPT ![i] = TRUE]
    /\ gw_state' = [gw_state EXCEPT ![i] = state_after(on_branch[i] + past_join'[i], @)]
    /\ UNCHANGED <<element_incoming, incoming, created, on_branch, rounds,
                   birth_counter, arrivals, arrived, outcome>>
    /\ UNCHANGED not_gw_vars

GwNext ==
    \/ \E i \in InstanceIds : CreateInstance(i)
    \/ \E i \in InstanceIds : TokenArrives(i)
    \/ \E i \in InstanceIds : ReEnter(i)
    \/ \E i \in InstanceIds : EnterEnd(i)

\* ======================================================================
\* Instance search: src/server.py 156-204
\* Strings are sequences of one-character strings.
\* ======================================================================

\* str.lower on the characters the model uses
lower_char(c) ==
    CASE c = "A" -> "a"
      [] c = "B" -> "b"
      [] c = "K" -> "k"
      [] c = "N" -> "n"
      [] OTHER -> c

str_lower(s) == [i \in 1..Len(s) |-> lower_char(s[i])]

\* str.strip: leading and trailing whitespace removed
RECURSIVE str_lstrip(_)
str_lstrip(s) ==
    IF s # <<>> /\ Head(s) = " " THEN str_lstrip(Tail(s)) ELSE s

RECURSIVE str_rstrip(_)
str_rstrip(s) ==
    IF s # <<>> /\ s[Len(s)] = " " THEN str_rstrip(SubSeq(s, 1, Len(s) - 1)) ELSE s

str_strip(s) == str_rstrip(str_lstrip(s))

\* Python's "sub in s" on strings
str_contains(sub, s) ==
    \E i \in 0..(Len(s) - Len(sub)) : SubSeq(s, i + 1, i + Len(sub)) = sub

\* str.split(":")
RECURSIVE str_split_colon(_)
str_split_colon(s) ==
    IF \E i \in 1..Len(s) : s[i] = ":"
    THEN LET i == CHOOSE j \in 1..Len(s) :
                      s[j] = ":" /\ \A k \in 1..(j - 1) : s[k] # ":"
         IN  <<SubSeq(s, 1, i - 1)>> \o str_split_colon(SubSeq(s, i + 1, Len(s)))
    ELSE <<s>>

\* strip_lower = lambda x: x.strip().lower()                  (server.py 161)
strip_lower(x) == str_lower(str_strip(x))

\* check_colon = lambda x: x if ":" in x else f":{x}"         (server.py 162)
check_colon(x) == IF str_contains(<<":">>, x) THEN x ELSE <<":">> \o x

\* tuple(map(strip_lower, check_colon(q).split(":")))         (server.py 165-170)
parse_clause(q) ==
    LET parts == str_split_colon(check_colon(q))
    IN  [i \in 1..Len(parts) |-> strip_lower(parts[i])]

\* queries = list(... for q in params["q"].split(","))        (server.py 164-172)
\* clauses is the list params["q"].split(",") yields
parse_queries(clauses) == [n \in 1..Len(clauses) |-> parse_clause(clauses[n])]

\* isinstance(instance.variables[x], str)
is_str(v) == "str" \in DOMAIN v

\* the inner loops of one clause (server.py 178-196) over a table of instances
clause_ids_of(table, att, value) ==
    { id \in DOMAIN table :
        \E key \in DOMAIN table[id] :
            /\ (att = <<>> \/ str_contains(att, str_lower(key)))
            /\ is_str(table[id][key])
            /\ key # <<>>
            /\ str_contains(value, str_lower(table[id][key].str)) }

\* the inner loops of one clause (server.py 178-196): set(ids)
clause_ids(att, value) == clause_ids_of(instances, att, value)

\* result_ids (server.py 176-196)
result_ids(queries) ==
    [n \in 1..Len(queries) |-> clause_ids(queries[n][1], queries[n][2])]

\* functools.reduce(lambda a, x: a.intersection(x), xs, init)
RECURSIVE reduce_intersection(_, _)
reduce_intersection(xs, init) ==
    IF xs = <<>> THEN init ELSE reduce_intersection(Tail(xs), init \cap Head(xs))

\* ids = reduce(lambda a, x: a.intersection(x), result_ids[:-1], result_ids[0])
\*                                                             (server.py 198)
search_reduce(rs) == reduce_intersection(SubSeq(rs, 1, Len(rs) - 1), rs[1])

\* search_instance (server.py 156-204). A request without q raises KeyError
\* inside the try: 400. A clause that does not split into two parts fails the
\* unpacking "for (att, value) in queries", outside the try: an unhandled
\* exception, answered 500 by the server.
search_instance(req) ==
    IF ~req.has_q
    THEN [status |-> 400, ids |-> {}]
    ELSE LET queries == parse_queries(req.q)
         IN  IF \E n \in 1..Len(queries) : Len(queries[n]) # 2
             THEN [status |-> 500, ids |-> {}]
             ELSE [status |-> 200, ids |-> search_reduce(result_ids(queries))]

\* --- inputs
S(x) == [str |-> x]

SearchIds == {1, 2}

VariableMaps ==
    { <<>>,
      (<<"k">> :> S(<<"a">>)),
      (<<"k">> :> S(<<"b">>)) @@ (<<"N">> :> S(<<"A", "b">>)),
      (<<"k", "n">> :> S(<<"b", "a">>)) @@ (<<"k">> :> [num |-> 7]) }

RawClauses ==
    { <<"a">>,
      <<"k", ":", "a">>,
      <<" ", "K", " ", ":", " ", "B">>,
      <<"n", ":">>,
      <<"n", ":", "a", "b">>,
      <<"k", ":", "a", ":", "b">> }

ClauseLists == UNION { [1..n -> RawClauses] : n \in 1..MaxClauses }

Requests ==
    {[has_q |-> FALSE, q |-> <<>>]} \cup {[has_q |-> TRUE, q |-> cl] : cl \in ClauseLists}

NoRequest == [has_q |-> FALSE, q |-> <<"-">>]
NoResponse == [status |-> 0, ids |-> {}]

\* run_from_log(events, state) on an instance object (spec.md section 4.7):
\* (i) the variables of the latest snapshot, (ii) pending as the entries
\* restore it, (iii) the unconsumed message_received entries are put on the
\* instance's in_queue again; replay is state-only
run_from_log(instance, entry) ==
    [pending |-> entry.pending, variables |-> entry.variables, state |-> entry.state,
     in_queue |-> instance.in_queue \o entry.unconsumed]

\* no lookup is suspended
NoRow == [id |-> 0]

\* the journal entry of a running instance with these variables
journaled(vm) == [pending |-> {}, variables |-> vm, state |-> "running", unconsumed |-> <<>>]

\* a running instance with these variables and an empty in_queue
running_instance(vm) == [pending |-> {}, variables |-> vm, state |-> "running", in_queue |-> <<>>]

SearchInit ==
    /\ instances \in [SearchIds -> VariableMaps]
    /\ request = NoRequest
    /\ response = NoResponse
    /\ searched = instances
    /\ search_journal = [i \in SearchIds |-> journaled(instances[i])]
    /\ search_pc = "idle"
    /\ search_ids = {}
    /\ search_data = <<>>
    /\ search_lookups = <<>>
    /\ search_row = NoRow
    /\ searches = 0

SearchIdle ==
    /\ instances = [i \in SearchIds |-> <<>>]
    /\ request = NoRequest
    /\ response = NoResponse
    /\ searched = instances
    /\ search_journal = [i \in SearchIds |-> journaled(<<>>)]
    /\ search_pc = "idle"
    /\ search_ids = {}
    /\ search_data = <<>>
    /\ search_lookups = <<>>
    /\ search_row = NoRow
    /\ searches = 0

\* GET /instance?q=... up to the first await (server.py 156-200): the query is
\* parsed and the ids are computed without suspending; a rejected query, an
\* unhandled error and an empty result are answered at once
SearchInstance(req) ==
    /\ search_pc = "idle"
    /\ searches < MaxSearches
    /\ searches' = searches + 1
    /\ request' = req
    /\ searched' = instances
    /\ search_data' = <<>>
    /\ search_lookups' = <<>>
    /\ LET r == search_instance(req)
       IN  IF r.status = 200 /\ r.ids # {}
           THEN /\ search_ids' = r.ids
                /\ search_pc' = "lookup"
                /\ response' = NoResponse
           ELSE /\ search_ids' = {}
                /\ response' = r
                /\ UNCHANGED search_pc
    /\ UNCHANGED <<instances, search_journal, search_row>>
    /\ UNCHANGED not_search_vars

\* one turn of "for _id in ids" (server.py 201-202) enters
\* get_model_for_instance: db_connector.get_instance reads the journal row (46)
\* and the lookup is suspended at "await ...create_or_get_instance" (49)
SearchReadsRow(id) ==
    /\ search_pc = "lookup"
    /\ search_row = NoRow
    /\ id \in search_ids
    /\ \A n \in 1..Len(search_data) : search_data[n] # id
    /\ search_row' = [id |-> id, row |-> search_journal[id]]
    /\ search_lookups' = Append(search_lookups, id)
    /\ UNCHANGED <<instances, request, response, searched, search_journal, search_pc,
                   search_ids, search_data, searches>>
    /\ UNCHANGED not_search_vars

\* the lookup resumes (server.py 49-55, 202): run_from_log replays the row read
\* at line 46 onto the live instance, whatever was journaled since, then
\* data.append(...to_json())
SearchLooksUp ==
    /\ search_pc = "lookup"
    /\ search_row # NoRow
    /\ instances' = [instances EXCEPT ![search_row.id] =
           run_from_log(running_instance(@), search_row.row).variables]
    /\ search_data' = Append(search_data, search_row.id)
    /\ search_row' = NoRow
    /\ UNCHANGED <<request, response, searched, search_journal, search_pc, search_ids,
                   search_lookups, searches>>
    /\ UNCHANGED not_search_vars

\* return web.json_response({"status": "ok", "results": data}) (server.py 204)
SearchResponds ==
    /\ search_pc = "lookup"
    /\ search_row = NoRow
    /\ \A id \in search_ids : \E n \in 1..Len(search_data) : search_data[n] = id
    /\ response' = [status |-> 200, ids |-> { search_data[n] : n \in 1..Len(search_data) }]
    /\ search_pc' = "idle"
    /\ UNCHANGED <<instances, request, searched, search_journal, search_ids,
                   search_data, search_lookups, search_row, searches>>
    /\ UNCHANGED not_search_vars

\* while the handler is suspended inside a lookup the loop of an instance goes
\* on: an element run sets the instance's variables and the step is journaled
\* (spec.md sections 4.5, 4.7)
InstanceStep(id, vm) ==
    /\ search_pc = "lookup"
    /\ search_row # NoRow
    /\ instances[id] # vm
    /\ instances' = [instances EXCEPT ![id] = vm]
    /\ search_journal' = [search_journal EXCEPT ![id] = journaled(vm)]
    /\ UNCHANGED <<request, response, searched, search_pc, search_ids, search_data,
                   search_lookups, search_row, searches>>
    /\ UNCHANGED not_search_vars

SearchNext ==
    \/ \E req \in Requests : SearchInstance(req)
    \/ \E id \in SearchIds : SearchReadsRow(id)
    \/ SearchLooksUp
    \/ SearchResponds
    \/ \E id \in SearchIds, vm \in VariableMaps : InstanceStep(id, vm)

\* ======================================================================
\* Task behaviours: src/bpmn_types.py 133-344
\* A Python dict is a function on the set of its keys; EmptyDict is {}.
\* ======================================================================

EmptyDict == <<>>

\* d with d[k] = v set (Python: d[k] = v)
dict_set(d, k, v) == [x \in DOMAIN d \cup {k} |-> IF x = k THEN v ELSE d[x]]

\* {**a, **b}
dict_merge(a, b) == [x \in DOMAIN a \cup DOMAIN b |-> IF x \in DOMAIN b THEN b[x] ELSE a[x]]

\* --- expression evaluator (utils/common.py parse_expression; spec.md section 4.1)
\* "${path}" exactly: ctx[path], or the expression itself when the path is absent;
\* a string without a reference is returned as it is.
expression_path(expr) ==
    CASE expr = "${name}" -> "name"
      [] expr = "${id}" -> "id"
      [] expr = "${missing}" -> "missing"
      [] OTHER -> ""

parse_expression(expr, ctx) ==
    LET path == expression_path(expr)
    IN  IF path # "" /\ path \in DOMAIN ctx THEN ctx[path] ELSE expr

\* --- UserTask.run (bpmn_types.py 166-170)
\*   for k, v in user_input.items():
\*       if k in self.form_fields: state[k] = v
\*   return True
UserTask_run_copies_every_key(form_fields, state, user_input) ==
    dict_merge(state, user_input)

UserTask_run(form_fields, state, user_input) ==
    [k \in DOMAIN state \cup (DOMAIN user_input \cap form_fields) |->
        IF k \in DOMAIN user_input /\ k \in form_fields THEN user_input[k] ELSE state[k]]

\* --- ReceiveTask.run (bpmn_types.py 332-337)
\*   if isinstance(state, dict) and isinstance(user_input, dict):
\*       for key in self.output_variables:
\*           if key in user_input: state[key] = user_input[key]
\*   return True
ReceiveTask_run_copies_every_key(output_variables, state, payload) ==
    IF payload.is_dict THEN dict_merge(state, payload.entries) ELSE state

ReceiveTask_run(output_variables, state, payload) ==
    IF payload.is_dict
    THEN [k \in DOMAIN state \cup (output_variables \cap DOMAIN payload.entries) |->
            IF k \in output_variables /\ k \in DOMAIN payload.entries
            THEN payload.entries[k] ELSE state[k]]
    ELSE state

\* --- ServiceTask (bpmn_types.py 181-305)
\* env.DS, the datasources map: connector id -> {type, url}
DS ==
    ("tickets" :> [type |-> "http-connector", url |-> "http://tickets"]) @@
    ("mailer" :> [type |-> "smtp", url |-> "smtp://mail"])

\* env.SYSTEM_VARS, merged into every request body
SYSTEM_VARS == ("system" :> "bpmn")

\* ServiceTask.parse (193-218): connector_fields["connector_id"] is "" unless the
\* connector's id is a key of the datasources, and then the datasource's type
ServiceTask_parse_connector_id(connectorId) ==
    IF connectorId \in DOMAIN DS THEN DS[connectorId].type ELSE ""

\* run_connector, 230-248: the JSON body. self.input_variables is the union of
\* its string-, list- and map-valued entries (_parse_input_output_parameters).
\*   value = val or key; strings, list items and map values are resolved by
\*   parse_expression; id_instance is overridden; SYSTEM_VARS are merged in.
is_empty(v) == DOMAIN v = {}

request_data(iv, vars_, instance_id) ==
    LET falls_back ==
            {k \in DOMAIN iv.list : is_empty(iv.list[k])} \cup
            {k \in DOMAIN iv.dict : is_empty(iv.dict[k])}
        all_keys == DOMAIN iv.str \cup DOMAIN iv.list \cup DOMAIN iv.dict
        str_keys == DOMAIN iv.str \cup falls_back \cup ({"id_instance"} \cap all_keys)
    IN  [str |-> dict_merge(
                    [k \in str_keys |->
                        IF k = "id_instance" THEN instance_id
                        ELSE IF k \in DOMAIN iv.str
                             THEN parse_expression(IF iv.str[k] = "" THEN k ELSE iv.str[k], vars_)
                             ELSE parse_expression(k, vars_)],
                    SYSTEM_VARS),
         list |-> [k \in (DOMAIN iv.list \ str_keys) |->
                    [i \in DOMAIN iv.list[k] |-> parse_expression(iv.list[k][i], vars_)]],
         dict |-> [k \in (DOMAIN iv.dict \ str_keys) |->
                    [x \in DOMAIN iv.dict[k] |-> parse_expression(iv.dict[k][x], vars_)]]]

\* run_connector, 239-241: "value[k] = parse_expression(v, variables)" writes into
\* the map held by self.input_variables
resolved_in_place(iv, vars_) ==
    [iv EXCEPT !.dict =
        [k \in DOMAIN iv.dict |->
            [x \in DOMAIN iv.dict[k] |-> parse_expression(iv.dict[k][x], vars_)]]]

\* run_connector, 257-263
http_method(method) ==
    CASE method = "POST" -> "POST"
      [] method = "PATCH" -> "PATCH"
      [] OTHER -> "GET"

status_ok_any_2xx(status) == status \in 200..299

\* run_connector, 272: response.status not in (200, 201) raises
status_ok(status) == status \in {200, 201}

\* run_connector, 275-281: r = {}; r = await response.json(); a ContentTypeError
\* is swallowed (r stays {}), any other error is raised again
json_raises(resp) == resp.json = "decode_error"

response_json(resp) == IF resp.json = "ok" THEN resp.body ELSE EmptyDict

bind_outputs_expression_wins(output_variables, vars_, r) ==
    [k \in DOMAIN vars_ \cup {x \in DOMAIN output_variables :
                                 output_variables[x] # "" \/ x \in DOMAIN r} |->
        IF k \in DOMAIN output_variables /\ output_variables[k] # ""
        THEN parse_expression(output_variables[k], r)
        ELSE IF k \in DOMAIN output_variables /\ k \in DOMAIN r THEN r[k]
        ELSE vars_[k]]

\* run_connector, 285-294
\*   for key in self.output_variables:
\*       value = self.output_variables.get(key)
\*       if len(value) > 0: variables[key] = parse_expression(value, r)
\*       if key in r: variables[key] = r[key]
bind_outputs(output_variables, vars_, r) ==
    [k \in DOMAIN vars_ \cup {x \in DOMAIN output_variables :
                                 output_variables[x] # "" \/ x \in DOMAIN r} |->
        IF k \in DOMAIN output_variables /\ k \in DOMAIN r THEN r[k]
        ELSE IF k \in DOMAIN output_variables /\ output_variables[k] # ""
        THEN parse_expression(output_variables[k], r)
        ELSE vars_[k]]

\* ServiceTask.run (299-305): the connector runs only when
\* connector_fields["connector_id"] == "http-connector"; otherwise return False
runs_connector(task) == ServiceTask_parse_connector_id(task.connectorId) = "http-connector"

\* --- the elements of the model and the inputs
UserTasks ==
    { [form_fields |-> {"name"}],
      [form_fields |-> {"name", "age"}] }

ReceiveTasks ==
    { [output_variables |-> {"ticket_id"}],
      [output_variables |-> {"name", "note"}] }

Payloads ==
    { [is_dict |-> TRUE, entries |-> EmptyDict],
      [is_dict |-> TRUE, entries |-> ("name" :> "Q")],
      [is_dict |-> TRUE, entries |-> ("name" :> "Q") @@ ("note" :> "N")],
      [is_dict |-> TRUE, entries |-> ("ticket_id" :> "T-9") @@ ("age" :> "N")],
      [is_dict |-> FALSE, entries |-> EmptyDict] }

ServiceTaskIds == {"create_ticket", "lookup", "notify", "orphan"}

ServiceTasks ==
    ("create_ticket" :>
        [connectorId |-> "tickets", method |-> "POST",
         output_variables |-> ("ticket_id" :> "")]) @@
    ("lookup" :>
        [connectorId |-> "tickets", method |-> "",
         output_variables |-> ("ticket_id" :> "${id}") @@ ("note" :> "${missing}")]) @@
    ("notify" :>
        [connectorId |-> "mailer", method |-> "POST",
         output_variables |-> ("ticket_id" :> "${id}")]) @@
    ("orphan" :>
        [connectorId |-> "unknown", method |-> "",
         output_variables |-> ("ticket_id" :> "")])

ParsedInputVariables ==
    ("create_ticket" :>
        [str |-> ("name" :> "${name}") @@ ("id_instance" :> ""),
         list |-> EmptyDict, dict |-> EmptyDict]) @@
    ("lookup" :>
        [str |-> ("note" :> ""),
         list |-> ("tags" :> <<"${name}", "x">>),
         dict |-> ("user" :> ("n" :> "${name}"))]) @@
    ("notify" :>
        [str |-> EmptyDict, list |-> EmptyDict, dict |-> ("user" :> ("n" :> "${name}"))]) @@
    ("orphan" :>
        [str |-> EmptyDict, list |-> ("tags" :> <<>>), dict |-> EmptyDict])

Responses ==
    { [status |-> 200, json |-> "ok", body |-> ("ticket_id" :> "T-9")],
      [status |-> 201, json |-> "ok", body |-> ("ticket_id" :> "N") @@ ("id" :> "T-9")],
      [status |-> 200, json |-> "ok", body |-> ("id" :> "T-9") @@ ("note" :> "N")],
      [status |-> 200, json |-> "ok", body |-> EmptyDict],
      [status |-> 200, json |-> "content_type_error", body |-> EmptyDict],
      [status |-> 200, json |-> "decode_error", body |-> EmptyDict],
      [status |-> 204, json |-> "ok", body |-> ("ticket_id" :> "T-9")],
      [status |-> 404, json |-> "ok", body |-> ("ticket_id" :> "T-9")],
      [status |-> 500, json |-> "content_type_error", body |-> EmptyDict] }

InitialVariables ==
    { EmptyDict,
      ("name" :> "old"),
      ("name" :> "old") @@ ("note" :> "old") @@ ("ticket_id" :> "old") }

\* the variables of a second instance of the same model
OtherVariables == { EmptyDict, ("name" :> "new") }

instance_id == "i-1"
other_instance_id == "i-2"

\* the run has made its request and the response has not arrived
NoHttpResponse == [status |-> 0, json |-> "none", body |-> EmptyDict]

NoRun == [kind |-> "none"]
NothingSent == [method |-> "", data |-> [str |-> EmptyDict, list |-> EmptyDict, dict |-> EmptyDict]]

TaskInit ==
    /\ variables \in InitialVariables
    /\ prev_variables = variables
    /\ input_variables = ParsedInputVariables
    /\ last = NoRun
    /\ result = "none"
    /\ http_requests = 0
    /\ sent = NothingSent
    /\ instance_state = "running"
    /\ task_pc = "idle"
    /\ other_sent = NothingSent.data

TaskIdle ==
    /\ variables = EmptyDict
    /\ prev_variables = EmptyDict
    /\ input_variables = ParsedInputVariables
    /\ last = NoRun
    /\ result = "none"
    /\ http_requests = 0
    /\ sent = NothingSent
    /\ instance_state = "running"
    /\ task_pc = "idle"
    /\ other_sent = NothingSent.data

\* The scheduler's reaction to a run (spec.md sections 4.3, 4.5 and 7): a run that
\* returns lets the instance go on; a run that raises halts the instance: failed.
\* A UserForm message delivered to a userTask: UserTask.run; a payload that is
\* no JSON object has no items(): the run raises.
RunUserTask(t, payload) ==
    /\ instance_state = "running"
    /\ task_pc = "idle"
    /\ prev_variables' = variables
    /\ last' = [kind |-> "user", task |-> t, payload |-> payload]
    /\ IF payload.is_dict
       THEN /\ variables' = UserTask_run(t.form_fields, variables, payload.entries)
            /\ result' = "True"
            /\ UNCHANGED instance_state
       ELSE /\ result' = "raised"
            /\ instance_state' = "failed"
            /\ UNCHANGED variables
    /\ http_requests' = 0
    /\ sent' = NothingSent
    /\ UNCHANGED <<input_variables, task_pc, other_sent>>
    /\ UNCHANGED not_task_vars

\* A Receive message delivered to a receiveTask: ReceiveTask.run
RunReceiveTask(t, payload) ==
    /\ instance_state = "running"
    /\ task_pc = "idle"
    /\ prev_variables' = variables
    /\ last' = [kind |-> "receive", task |-> t, payload |-> payload]
    /\ variables' = ReceiveTask_run(t.output_variables, variables, payload)
    /\ result' = "True"
    /\ http_requests' = 0
    /\ sent' = NothingSent
    /\ UNCHANGED <<input_variables, instance_state, task_pc, other_sent>>
    /\ UNCHANGED not_task_vars

\* A token at a serviceTask / sendTask: ServiceTask.run (299-305) and
\* run_connector up to "await call_function(...)" (220-266): the map-valued
\* input_variables are resolved in place, the body is built and the request is
\* made. A task without an HTTP connector returns False at once.
RunServiceTask(id) ==
    LET task == ServiceTasks[id] IN
    /\ instance_state = "running"
    /\ task_pc = "idle"
    /\ prev_variables' = variables
    /\ last' = [kind |-> "service", task |-> id, response |-> NoHttpResponse]
    /\ IF runs_connector(task)
       THEN /\ input_variables' =
                   [input_variables EXCEPT ![id] = resolved_in_place(@, variables)]
            /\ http_requests' = 1
            /\ sent' = [method |-> http_method(task.method),
                        data |-> request_data(input_variables[id], variables, instance_id)]
            /\ result' = "none"
            /\ task_pc' = "requesting"
       ELSE /\ result' = "False"
            /\ http_requests' = 0
            /\ sent' = NothingSent
            /\ UNCHANGED <<input_variables, task_pc>>
    /\ UNCHANGED <<variables, instance_state, other_sent>>
    /\ UNCHANGED not_task_vars

\* "await call_function(...)" returns the endpoint's response (266-273); a
\* status outside (200, 201) raises, and the scheduler halts the instance
ResponseArrives(resp) ==
    /\ task_pc = "requesting"
    /\ last' = [last EXCEPT !.response = resp]
    /\ IF ~status_ok(resp.status)
       THEN /\ result' = "raised"
            /\ instance_state' = "failed"
            /\ task_pc' = "idle"
       ELSE /\ task_pc' = "decoding"
            /\ UNCHANGED <<result, instance_state>>
    /\ UNCHANGED <<variables, prev_variables, input_variables, http_requests, sent,
                   other_sent>>
    /\ UNCHANGED not_task_vars

\* "await response.json()" returns or raises (275-281), the outputs are bound
\* to the instance's variables (285-294) and run returns True (304-305)
ResponseDecoded ==
    LET task == ServiceTasks[last.task] IN
    /\ task_pc = "decoding"
    /\ IF json_raises(last.response)
       THEN /\ result' = "raised"
            /\ instance_state' = "failed"
            /\ UNCHANGED variables
       ELSE /\ variables' = bind_outputs(task.output_variables, variables,
                                         response_json(last.response))
            /\ result' = "True"
            /\ UNCHANGED instance_state
    /\ task_pc' = "idle"
    /\ UNCHANGED <<prev_variables, input_variables, last, http_requests, sent,
                   other_sent>>
    /\ UNCHANGED not_task_vars

\* Another instance of the model reaches the same serviceTask, also while this
\* instance's run is suspended: the element object and its input_variables are
\* shared by all instances (239-241 write into them), and the body it sends is
\* built from what it finds there (230-248)
OtherInstanceRunsConnector(id, vars_) ==
    /\ runs_connector(ServiceTasks[id])
    /\ input_variables' = [input_variables EXCEPT ![id] = resolved_in_place(@, vars_)]
    /\ other_sent' = request_data(input_variables[id], vars_, other_instance_id)
    /\ <<input_variables', other_sent'>> # <<input_variables, other_sent>>
    /\ UNCHANGED <<variables, prev_variables, last, result, http_requests, sent,
                   instance_state, task_pc>>
    /\ UNCHANGED not_task_vars

TaskNext ==
    \/ \E t \in UserTasks, payload \in Payloads : RunUserTask(t, payload)
    \/ \E t \in ReceiveTasks, payload \in Payloads : RunReceiveTask(t, payload)
    \/ \E id \in ServiceTaskIds : RunServiceTask(id)
    \/ \E resp \in Responses : ResponseArrives(resp)
    \/ ResponseDecoded
    \/ \E id \in ServiceTaskIds, vars_ \in OtherVariables :
          OtherInstanceRunsConnector(id, vars_)

\* ======================================================================
\* Call activity: src/bpmn_types.py 347-438
\* A variable is a string (atom), a map of strings (dict) or None.
\* ======================================================================

Atom(x) == [atom |-> x]
Dict(f) == [dict |-> f]
None == [none |-> TRUE]

\* d.pop(k), k being a key of d
dict_pop(d, k) == [x \in DOMAIN d \ {k} |-> d[x]]

\* str(source).split("."): the keys of a dotted source
source_path(source) ==
    CASE source = "user.name" -> <<"user", "name">>
      [] source = "user.email" -> <<"user", "email">>
      [] source = "result.code" -> <<"result", "code">>
      [] OTHER -> <<source>>

\* "." in str(source)
is_dotted(source) == Len(source_path(source)) > 1

\* nested_dict_get (utils/common.py; spec.md section 4.1: nested lookup by ".",
\* a failure returns absent): the member at the path, None when there is none
nested_dict_get(d, source) ==
    LET path == source_path(source)
    IN  IF /\ path[1] \in DOMAIN d
           /\ "dict" \in DOMAIN d[path[1]]
           /\ path[2] \in DOMAIN d[path[1]].dict
        THEN Atom(d[path[1]].dict[path[2]])
        ELSE None

\* One entry of transform_input_variables (379-386), on st = [raised, d]:
\*   if "." in str(source):
\*       nested_value = nested_dict_get(d, str(source))
\*       d.pop(str(source).split(".")[0]); d[target] = nested_value
\*   if source in self.input_variables: d[target] = d.pop(source)
\* dict.pop of a key that is absent raises KeyError.
transform_input_entry(st, source, target, input_variables_keys) ==
    LET top == source_path(source)[1]
        s1 == IF ~is_dotted(source) THEN st
              ELSE IF top \notin DOMAIN st.d THEN [raised |-> TRUE, d |-> st.d]
              ELSE [raised |-> FALSE,
                    d |-> dict_set(dict_pop(st.d, top), target, nested_dict_get(st.d, source))]
    IN  IF st.raised \/ s1.raised THEN [raised |-> TRUE, d |-> s1.d]
        ELSE IF source \notin input_variables_keys THEN s1
        ELSE IF source \notin DOMAIN s1.d THEN [raised |-> TRUE, d |-> s1.d]
        ELSE [raised |-> FALSE,
              d |-> dict_set(dict_pop(s1.d, source), target, s1.d[source])]

\* CallActivity.transform_input_variables (379-386): the entries of in_mapping
\* in their order
RECURSIVE transform_input_variables(_, _, _)
transform_input_variables(st, in_mapping, input_variables_keys) ==
    IF in_mapping = <<>> \/ st.raised THEN st
    ELSE transform_input_variables(
             transform_input_entry(st, Head(in_mapping)[1], Head(in_mapping)[2],
                                   input_variables_keys),
             Tail(in_mapping), input_variables_keys)

transform_output_entry_without_rename(d, source, target) ==
    IF is_dotted(source) THEN dict_set(d, target, nested_dict_get(d, source)) ELSE d

\* One entry of transform_output_variables (388-394):
\*   if "." in str(source): d[target] = nested_dict_get(d, str(source))
\*   if source in d: d[target] = d.pop(source)
transform_output_entry(d, source, target) ==
    LET d1 == IF is_dotted(source) THEN dict_set(d, target, nested_dict_get(d, source)) ELSE d
    IN  IF source \in DOMAIN d1
        THEN dict_set(dict_pop(d1, source), target, d1[source])
        ELSE d1

\* CallActivity.transform_output_variables (388-394)
RECURSIVE transform_output_variables(_, _)
transform_output_variables(d, out_mapping) ==
    IF out_mapping = <<>> THEN d
    ELSE transform_output_variables(
             transform_output_entry(d, Head(out_mapping)[1], Head(out_mapping)[2]),
             Tail(out_mapping))

\* run_subprocess, 407-412: the child's initial variables
\*   copied = deepcopy(parent_variables); self.transform_input_variables(copied)
\*   for key in self.input_variables: if key in copied: inital[key] = copied[key]
mapped_copy(ca, parent) ==
    transform_input_variables([raised |-> FALSE, d |-> parent], ca.in_mapping,
                              ca.input_variables)

child_variables_unfiltered(ca, copied) == copied

child_variables(ca, copied) ==
    [k \in ca.input_variables \cap DOMAIN copied |-> copied[k]]

\* run_subprocess, 427-436: the write-back
\*   new_vars = dict(deepcopy(finished)); self.transform_output_variables(new_vars)
\*   for key in self.output_variables: if key in new_vars: parent[key] = new_vars[key]
write_back(ca, parent, mapped) ==
    [k \in DOMAIN parent \cup (ca.output_variables \cap DOMAIN mapped) |->
        IF k \in ca.output_variables /\ k \in DOMAIN mapped THEN mapped[k] ELSE parent[k]]

\* run_subprocess, 438: return finished_subprocess_variables is not None
run_subprocess_returns(finished) == finished # None

\* the outcome of the call as the scheduler sees it
call_result_of(finished) == IF run_subprocess_returns(finished) THEN "True" ELSE "False"

\* --- the elements of the model and the inputs
\* in_mapping / out_mapping: <camunda:in/out source target>, in document order
CallActivities ==
    { [in_mapping |-> << <<"user.name", "customer">> >>,
       input_variables |-> {"customer"},
       out_mapping |-> << <<"status", "ticket_status">> >>,
       output_variables |-> {"ticket_status"}],
      [in_mapping |-> << <<"name", "customer">> >>,
       input_variables |-> {"name", "customer"},
       out_mapping |-> << <<"status", "result">>, <<"result", "ticket_status">> >>,
       output_variables |-> {"result", "ticket_status"}],
      [in_mapping |-> << <<"user.name", "customer">>, <<"user.email", "email">> >>,
       input_variables |-> {"customer", "email"},
       out_mapping |-> << <<"result.code", "code">>, <<"status", "code">> >>,
       output_variables |-> {"code", "status"}],
      [in_mapping |-> << <<"name", "customer">> >>,
       input_variables |-> {"customer", "name", "ticket_status"},
       out_mapping |-> << <<"status", "ticket_status">>, <<"result.code", "code">> >>,
       output_variables |-> {"ticket_status"}],
      [in_mapping |-> << <<"name", "customer">> >>,
       input_variables |-> {"customer"},
       out_mapping |-> << <<"status", "ticket_status">> >>,
       output_variables |-> {"ticket_status", "customer"}],
      [in_mapping |-> << <<"user.name", "customer">> >>,
       input_variables |-> {"customer"},
       out_mapping |-> << <<"result.code", "code">> >>,
       output_variables |-> {"code"}] }

ParentVariables ==
    { EmptyDict,
      ("user" :> Dict(("name" :> "ann") @@ ("email" :> "a@x"))) @@ ("name" :> Atom("bob")),
      ("name" :> Atom("bob")) @@ ("ticket_status" :> Atom("old")) @@ ("code" :> Atom("0")),
      ("user" :> Dict(("name" :> "ann"))) @@ ("name" :> Atom("eve")) @@
          ("ticket_status" :> Atom("old")),
      ("user" :> Atom("ann")) @@ ("customer" :> Atom("c")) }

\* what the child's tasks write into its variables while it runs
ChildWrites ==
    { EmptyDict,
      ("status" :> Atom("ok")),
      ("status" :> Atom("ok")) @@ ("result" :> Dict(("code" :> "7"))),
      ("status" :> Atom("ok")) @@ ("result" :> Atom("done")),
      ("result" :> Dict(("code" :> "7"))) @@ ("customer" :> Atom("changed")),
      ("status" :> None) @@ ("ticket_status" :> Atom("new")) }

NoCall == [in_mapping |-> <<>>, input_variables |-> {}, out_mapping |-> <<>>,
           output_variables |-> {}]

CallInit ==
    /\ parent_variables \in ParentVariables
    /\ prev_parent_variables = parent_variables
    /\ call_activity = NoCall
    /\ inital_variables = EmptyDict
    /\ finished_subprocess_variables = None
    /\ new_vars = EmptyDict
    /\ call_result = "none"
    /\ parent_state = "running"
    /\ parent_at_return = parent_variables
    /\ call_pc = "idle"

CallIdle ==
    /\ parent_variables = EmptyDict
    /\ prev_parent_variables = EmptyDict
    /\ call_activity = NoCall
    /\ inital_variables = EmptyDict
    /\ finished_subprocess_variables = None
    /\ new_vars = EmptyDict
    /\ call_result = "none"
    /\ parent_state = "running"
    /\ parent_at_return = EmptyDict
    /\ call_pc = "idle"

\* what another coroutine writes into the parent's variables while the call
\* activity is suspended
OtherWrites == { <<"name", Atom("changed")>>, <<"ticket_status", Atom("changed")>> }

\* A token at a callActivity: run_subprocess (405-438), the input mapping raising
\* KeyError before a child exists
RunSubprocessRaises(ca) ==
    /\ parent_state = "running"
    /\ call_pc = "idle"
    /\ mapped_copy(ca, parent_variables).raised
    /\ prev_parent_variables' = parent_variables
    /\ call_activity' = ca
    /\ inital_variables' = EmptyDict
    /\ finished_subprocess_variables' = None
    /\ new_vars' = EmptyDict
    /\ call_result' = "raised"
    /\ parent_state' = "failed"
    /\ parent_at_return' = parent_variables
    /\ UNCHANGED <<parent_variables, call_pc>>
    /\ UNCHANGED not_call_vars

\* run_subprocess up to its awaits (405-425): inital_variables is built from the
\* mapped deep copy of parent_variables, the child instance is created with it
\* and its run is awaited
RunSubprocess(ca) ==
    LET copied == mapped_copy(ca, parent_variables)
    IN  /\ parent_state = "running"
        /\ call_pc = "idle"
        /\ ~copied.raised
        /\ prev_parent_variables' = parent_variables
        /\ call_activity' = ca
        /\ inital_variables' = child_variables(ca, copied.d)
        /\ finished_subprocess_variables' = None
        /\ new_vars' = EmptyDict
        /\ call_result' = "none"
        /\ call_pc' = "child_running"
        /\ UNCHANGED <<parent_variables, parent_state, parent_at_return>>
        /\ UNCHANGED not_call_vars

\* while run_subprocess is suspended at "await new_subprocess_instance.run(...)"
\* (419, 425) another coroutine assigns to the parent's variables, as the
\* run_from_log of a request that names the parent does (server.py 53): the
\* dict is the one run_subprocess writes back into when the child returns
OtherCoroutineWrites(k, v) ==
    /\ call_pc = "child_running"
    /\ dict_set(parent_variables, k, v) # parent_variables
    /\ parent_variables' = dict_set(parent_variables, k, v)
    /\ UNCHANGED <<prev_parent_variables, call_activity, inital_variables,
                   finished_subprocess_variables, new_vars, call_result, parent_state,
                   parent_at_return, call_pc>>
    /\ UNCHANGED not_call_vars

\* the child runs to its end and run_subprocess goes on (427-438): the child
\* started from inital_variables and its tasks wrote `writes` (spec.md section 3:
\* variables are mutated by task execution); its run returns its variables, which
\* are mapped and written back into parent_variables as they are now
RunSubprocessFinished(writes) ==
    LET ca == call_activity
        finished == dict_merge(inital_variables, writes)
        mapped == transform_output_variables(finished, ca.out_mapping)
    IN  /\ call_pc = "child_running"
        /\ finished_subprocess_variables' = Dict(finished)
        /\ new_vars' = mapped
        /\ parent_at_return' = parent_variables
        /\ parent_variables' = write_back(ca, parent_variables, mapped)
        /\ call_result' = call_result_of(Dict(finished))
        /\ call_pc' = "idle"
        /\ UNCHANGED <<prev_parent_variables, call_activity, inital_variables,
                       parent_state>>
        /\ UNCHANGED not_call_vars

\* the child's run returns None (427, 438): nothing is written back and the call
\* returns False; the parent then fails (spec.md section 7, ChildFailure)
RunSubprocessUnfinished ==
    /\ call_pc = "child_running"
    /\ finished_subprocess_variables' = None
    /\ new_vars' = EmptyDict
    /\ parent_at_return' = parent_variables
    /\ call_result' = call_result_of(None)
    /\ parent_state' = IF run_subprocess_returns(None) THEN parent_state ELSE "failed"
    /\ call_pc' = "idle"
    /\ UNCHANGED <<parent_variables, prev_parent_variables, call_activity,
                   inital_variables>>
    /\ UNCHANGED not_call_vars

CallNext ==
    \/ \E ca \in CallActivities : RunSubprocessRaises(ca)
    \/ \E ca \in CallActivities : RunSubprocess(ca)
    \/ \E w \in OtherWrites : OtherCoroutineWrites(w[1], w[2])
    \/ \E writes \in ChildWrites : RunSubprocessFinished(writes)
    \/ RunSubprocessUnfinished

\* ======================================================================
\* Call activity over object references: src/bpmn_types.py 405-438
\* Python dicts are objects: a variable map holds references to its nested
\* dicts, and a write through one reference is seen through every other.
\* iso_heap maps a reference to its dict; a top-level dict maps a key to
\* Atom(x), None or Ref(n); a nested dict maps a key to a string.
\* ======================================================================

Ref(n) == [ref |-> n]
is_ref(v) == "ref" \in DOMAIN v

\* the parent instance's variables: the object handed to run_subprocess
parent_ref == 1

\* the latest reference in use; a new object gets one above it
last_ref(heap) == CHOOSE n \in DOMAIN heap : (\A m \in DOMAIN heap : m <= n)

\* the nested objects a top-level dict refers to
nested_refs(heap, r) == { heap[r][k].ref : k \in { x \in DOMAIN heap[r] : is_ref(heap[r][x]) } }

\* the value of the dict at r: references replaced by the contents they lead to
deep(heap, r) ==
    [k \in DOMAIN heap[r] |->
        IF is_ref(heap[r][k]) THEN Dict(heap[heap[r][k].ref]) ELSE heap[r][k]]

\* the dict at r as transform_input_variables / transform_output_variables read
\* it: a nested dict with its contents, and the reference it is held by
view(heap, r) ==
    [k \in DOMAIN heap[r] |->
        IF is_ref(heap[r][k])
        THEN [dict |-> heap[heap[r][k].ref], ref |-> heap[r][k].ref]
        ELSE heap[r][k]]

\* what is stored back: the reference of a nested dict, any other value as it is
unview(d) == [k \in DOMAIN d |-> IF is_ref(d[k]) THEN Ref(d[k].ref) ELSE d[k]]

deepcopy_returns_its_argument(heap, r) == [heap |-> heap, ref |-> r]

\* copy.deepcopy(x) (407, 428): a new top-level dict whose nested dicts are new
\* objects with the same contents; returns the heap and the new reference
deepcopy(heap, r) ==
    LET top == last_ref(heap) + 1
        old == nested_refs(heap, r)
        new == (top + 1)..(top + Cardinality(old))
        image == CHOOSE f \in [old -> new] : \A a, b \in old : a # b => f[a] # f[b]
        copy == [k \in DOMAIN heap[r] |->
                    IF is_ref(heap[r][k]) THEN Ref(image[heap[r][k].ref]) ELSE heap[r][k]]
    IN  [heap |-> [n \in DOMAIN heap \cup {top} \cup new |->
                      IF n \in DOMAIN heap THEN heap[n]
                      ELSE IF n = top THEN copy
                      ELSE heap[CHOOSE a \in old : image[a] = n]],
         ref |-> top]

\* dict(x) (428): a new top-level dict holding the same values
dict_of(heap, r) ==
    LET top == last_ref(heap) + 1
    IN  [heap |-> [n \in DOMAIN heap \cup {top} |-> IF n = top THEN heap[r] ELSE heap[n]],
         ref |-> top]

\* run_subprocess, 407-412: copied = deepcopy(parent_variables);
\* transform_input_variables(copied) works on the object copied;
\* inital_variables = {} is filled with the values of copied
build_child_variables(heap, ca) ==
    LET c == deepcopy(heap, parent_ref)
        t == mapped_copy(ca, view(c.heap, c.ref))
        h == [c.heap EXCEPT ![c.ref] = unview(t.d)]
        inital == last_ref(h) + 1
    IN  [raised |-> t.raised,
         heap |-> IF t.raised THEN h
                  ELSE [n \in DOMAIN h \cup {inital} |->
                           IF n = inital THEN unview(child_variables(ca, view(h, c.ref)))
                           ELSE h[n]],
         ref |-> inital]

\* run_subprocess, 427-436: new_vars = dict(deepcopy(finished));
\* transform_output_variables(new_vars) works on the object new_vars;
\* parent_variables[key] = new_vars[key] writes into the parent's object
write_back_child_variables(heap, ca, finished) ==
    LET c == deepcopy(heap, finished)
        nv == dict_of(c.heap, c.ref)
        h == [nv.heap EXCEPT ![nv.ref] =
                 unview(transform_output_variables(view(nv.heap, nv.ref), ca.out_mapping))]
    IN  [h EXCEPT ![parent_ref] = write_back(ca, h[parent_ref], h[nv.ref])]

\* the parent's variables as objects: the top-level dict and its nested dicts
heap_of(pv) ==
    LET nested == { k \in DOMAIN pv : "dict" \in DOMAIN pv[k] }
        refs == (parent_ref + 1)..(parent_ref + Cardinality(nested))
        at == CHOOSE f \in [nested -> refs] : \A a, b \in nested : a # b => f[a] # f[b]
    IN  [n \in {parent_ref} \cup refs |->
            IF n = parent_ref
            THEN [k \in DOMAIN pv |-> IF k \in nested THEN Ref(at[k]) ELSE pv[k]]
            ELSE pv[CHOOSE k \in nested : at[k] = n].dict]

\* --- the elements of the model and the inputs
IsoCallActivities ==
    CallActivities \cup
    { [in_mapping |-> << <<"name", "customer">> >>,
       input_variables |-> {"user", "name"},
       out_mapping |-> << <<"user", "owner">> >>,
       output_variables |-> {"owner", "customer"}] }

\* what a task of the child writes: a top-level variable, or a member of a
\* nested variable
ChildKeys == {"status", "customer", "user"}
ChildMembers == {"name", "code"}
ChildValues == {"ok", "zed"}

IsoInit ==
    /\ \E pv \in ParentVariables : iso_heap = heap_of(pv) /\ iso_before = pv
    /\ iso_child = 0
    /\ iso_call = NoCall
    /\ iso_final = EmptyDict
    /\ iso_steps = 0
    /\ iso_pc = "idle"

IsoIdle ==
    /\ iso_heap = heap_of(EmptyDict)
    /\ iso_before = EmptyDict
    /\ iso_child = 0
    /\ iso_call = NoCall
    /\ iso_final = EmptyDict
    /\ iso_steps = 0
    /\ iso_pc = "idle"

\* a token at a callActivity, the input mapping raising KeyError (407-408)
IsoStartRaises(ca) ==
    LET b == build_child_variables(iso_heap, ca)
    IN  /\ iso_pc = "idle"
        /\ b.raised
        /\ iso_heap' = b.heap
        /\ iso_call' = ca
        /\ iso_pc' = "raised"
        /\ UNCHANGED <<iso_before, iso_child, iso_final, iso_steps>>
        /\ UNCHANGED not_iso_vars

\* a token at a callActivity (405-425): the child instance is created with
\* inital_variables and runs
IsoStart(ca) ==
    LET b == build_child_variables(iso_heap, ca)
    IN  /\ iso_pc = "idle"
        /\ ~b.raised
        /\ iso_heap' = b.heap
        /\ iso_child' = b.ref
        /\ iso_call' = ca
        /\ iso_pc' = "running"
        /\ UNCHANGED <<iso_before, iso_final, iso_steps>>
        /\ UNCHANGED not_iso_vars

\* a task of the child writes a variable: state[k] = v (UserTask.run, 169)
IsoChildWrites(k, v) ==
    /\ iso_pc = "running"
    /\ iso_steps < MaxChildSteps
    /\ iso_heap' = [iso_heap EXCEPT ![iso_child] = dict_set(@, k, Atom(v))]
    /\ iso_steps' = iso_steps + 1
    /\ UNCHANGED <<iso_before, iso_child, iso_call, iso_final, iso_pc>>
    /\ UNCHANGED not_iso_vars

\* a task of the child writes a member of a nested variable in place
\* (spec.md section 4.1, nested_set)
IsoChildSetsMember(k, m, v) ==
    /\ iso_pc = "running"
    /\ iso_steps < MaxChildSteps
    /\ k \in DOMAIN iso_heap[iso_child]
    /\ is_ref(iso_heap[iso_child][k])
    /\ iso_heap' = [iso_heap EXCEPT ![iso_heap[iso_child][k].ref] = dict_set(@, m, v)]
    /\ iso_steps' = iso_steps + 1
    /\ UNCHANGED <<iso_before, iso_child, iso_call, iso_final, iso_pc>>
    /\ UNCHANGED not_iso_vars

\* the child's run returns its variables: the write-back (427-438)
IsoReturn ==
    /\ iso_pc = "running"
    /\ iso_final' = deep(iso_heap, iso_child)
    /\ iso_heap' = write_back_child_variables(iso_heap, iso_call, iso_child)
    /\ iso_pc' = "returned"
    /\ UNCHANGED <<iso_before, iso_child, iso_call, iso_steps>>
    /\ UNCHANGED not_iso_vars

\* the child's run returns None: nothing is written back (427, 438)
IsoReturnNone ==
    /\ iso_pc = "running"
    /\ iso_pc' = "failed"
    /\ UNCHANGED <<iso_heap, iso_before, iso_child, iso_call, iso_final, iso_steps>>
    /\ UNCHANGED not_iso_vars

IsoNext ==
    \/ \E ca \in IsoCallActivities : IsoStartRaises(ca)
    \/ \E ca \in IsoCallActivities : IsoStart(ca)
    \/ \E k \in ChildKeys, v \in ChildValues : IsoChildWrites(k, v)
    \/ \E k \in ChildKeys, m \in ChildMembers, v \in ChildValues : IsoChildSetsMember(k, m, v)
    \/ IsoReturn
    \/ IsoReturnNone

\* ======================================================================
\* Registry, inbox and journal: src/server.py 45-153, 264-272
\* The process of the loaded model: start -> userTask "form" -> receiveTask
\* "approve" -> end, with a flow from "form" back to itself. The scheduler
\* loop (bpmn_model.py BpmnInstance.run), create_instance, run_from_log and
\* db_connector are modelled from spec.md sections 4.5, 4.7, 4.8.
\* ======================================================================

RegIds == {1, 2}
TaskIds == {"form", "approve"}
MessageIds == 1..MaxMessages

NoInstance == [pending |-> {}, variables |-> EmptyDict, state |-> "none"]
NoPop == [kind |-> "none"]
NoLookup == [id |-> 0]

\* create_instance(_id, {}): a fresh instance, its token on the first task once
\* the startEvent has run (spec.md sections 4.3, 4.8)
create_instance == [pending |-> {"form"}, variables |-> EmptyDict, state |-> "running"]

\* the vertices a token can move to when the task is completed (spec.md 3: flows)
successors(task_id) == IF task_id = "form" THEN {{"form"}, {"approve"}} ELSE {{}}

\* the row db_connector.get_instance returns for an instance (its events and
\* state, server.py 46, 53): the journaled (pending, variables, state) and the
\* message_received entries that no later entry consumes (spec.md section 4.7)
journal_entry(instance, msgs) ==
    [pending |-> instance.pending, variables |-> instance.variables,
     state |-> instance.state, unconsumed |-> msgs]

\* no row under this id
NoEntry == journal_entry(NoInstance, <<>>)

\* the instance object: its (pending, variables, state) and its in_queue
instance_object(instance, queue) ==
    [pending |-> instance.pending, variables |-> instance.variables,
     state |-> instance.state, in_queue |-> queue]

\* the (pending, variables, state) of an instance object
state_of(object) ==
    [pending |-> object.pending, variables |-> object.variables, state |-> object.state]

\* the log without its first message_received entry for msg: msg was consumed
RECURSIVE consumed(_, _)
consumed(msgs, msg) ==
    IF msgs = <<>> THEN <<>>
    ELSE IF Head(msgs) = msg THEN Tail(msgs)
    ELSE <<Head(msgs)>> \o consumed(Tail(msgs), msg)

\* create_or_get_instance(iid, {}): "creates a new empty instance or gets an
\* existing one" (server.py 48)
create_or_get_instance(i) ==
    IF i \in live THEN instance_object(mem[i], in_queue[i])
    ELSE instance_object(NoInstance, <<>>)

\* get_model_for_instance from line 49 on (server.py 49-55): the instance of the
\* table, or a new one; run_from_log is called on it in either case (53), with
\* the journal row that db_connector.get_instance returned at line 46
get_model_for_instance(i, row) ==
    [instance |-> run_from_log(create_or_get_instance(i), row),
     was_live |-> i \in live,
     replayed |-> TRUE]

\* the files of ./models, ignored_files (server.py 28) and what create_models
\* loads (31-42): every .bpmn file that is not ignored
ModelFiles == {"proc.bpmn", "scraper2.bpmn", "fipu_ticketing.bpmn"}
ignored_files == {"scraper2.bpmn", "fipu_ticketing.bpmn"}
create_models == ModelFiles \ ignored_files

\* in_queue.put_nowait(msg) (server.py 126, 136, 152)
put_nowait(queue, msg) == Append(queue, msg)

\* get_instances_log(state="running") (server.py 63): the journaled instances
\* whose state is "running"
get_instances_log(state) == { i \in RegIds : journal[i].state = state }

\* the server is up with no instance live; the journal is empty, or holds the
\* row of an instance of a model file that is now in ignored_files
RegInit ==
    /\ server_up = TRUE
    /\ restarts = 0
    /\ model_path \in { [i \in RegIds |-> "none"],
                        [i \in RegIds |-> IF i = 2 THEN "scraper2.bpmn" ELSE "none"] }
    /\ journal = [i \in RegIds |-> IF model_path[i] = "none" THEN NoEntry
                                    ELSE journal_entry(create_instance, <<>>)]
    /\ live = {}
    /\ mem = [i \in RegIds |-> NoInstance]
    /\ in_queue = [i \in RegIds |-> <<>>]
    /\ loops = [i \in RegIds |-> 0]
    /\ delivering = [i \in RegIds |-> <<>>]
    /\ next_msg = 0
    /\ delivered = [m \in MessageIds |-> 0]
    /\ last_pop = NoPop
    /\ last_lookup = NoLookup
    /\ auto_receive = {}
    /\ lookups = {}

RegIdle ==
    /\ server_up = FALSE
    /\ restarts = 0
    /\ model_path = [i \in RegIds |-> "none"]
    /\ journal = [i \in RegIds |-> NoEntry]
    /\ live = {}
    /\ mem = [i \in RegIds |-> NoInstance]
    /\ in_queue = [i \in RegIds |-> <<>>]
    /\ loops = [i \in RegIds |-> 0]
    /\ delivering = [i \in RegIds |-> <<>>]
    /\ next_msg = 0
    /\ delivered = [m \in MessageIds |-> 0]
    /\ last_pop = NoPop
    /\ last_lookup = NoLookup
    /\ auto_receive = {}
    /\ lookups = {}

\* the ids some instance has, live or journaled
ids_in_use == { j \in RegIds : journal[j].state # "none" } \cup live

uuid4_hardcoded(in_use) == {2}

\* _id = str(uuid4()) (server.py 103, 112, 142): an id no instance has
uuid4(in_use) == RegIds \ in_use

\* POST and GET /model/{name}/instance (server.py 101-107, 110-117):
\* create_instance on a loaded model, then asyncio.create_task(instance.run())
HandleNewInstance(i) ==
    /\ server_up
    /\ i \in uuid4(ids_in_use)
    /\ \E m \in create_models : model_path' = [model_path EXCEPT ![i] = m]
    /\ live' = live \cup {i}
    /\ mem' = [mem EXCEPT ![i] = create_instance]
    /\ in_queue' = [in_queue EXCEPT ![i] = <<>>]
    /\ journal' = [journal EXCEPT ![i] = journal_entry(create_instance, <<>>)]
    /\ loops' = [loops EXCEPT ![i] = @ + 1]
    /\ UNCHANGED <<server_up, restarts, next_msg, delivered, last_pop, last_lookup,
                   delivering, auto_receive, lookups>>
    /\ UNCHANGED not_reg_vars

\* the record a get_model_for_instance call leaves in last_lookup: whether the
\* instance was in the table, whether run_from_log was applied to it, and whether
\* its (pending, variables, state) are as they were before the call
lookup_of(i, found) ==
    [id |-> i, was_live |-> found.was_live, replayed |-> found.replayed,
     unchanged |-> state_of(found.instance) = mem[i]]

\* a request can name an instance whose row db_connector.get_instance finds and
\* whose model_path is a key of models (server.py 46-49); any other id raises
\* before anything is changed
can_look_up(i) ==
    /\ journal[i].state # "none"
    /\ model_path[i] \in create_models

\* a handler suspended inside get_model_for_instance, at "await
\* ...create_or_get_instance" (server.py 49), with the row it read at line 46
suspended(req, handler, i, task_id) ==
    [req |-> req, handler |-> handler, id |-> i, task_id |-> task_id, row |-> journal[i]]

\* POST /instance/{iid}/task/{tid}/form up to the await inside the lookup
\* (server.py 120-124, 45-49): db_connector.get_instance reads the journal
\* row, models[row["model_path"]] is a loaded model, and the handler is suspended
\* at "await ...create_or_get_instance"
HandleForm(i, task_id) ==
    /\ server_up
    /\ can_look_up(i)
    /\ next_msg < MaxMessages
    /\ next_msg' = next_msg + 1
    /\ lookups' = lookups \cup {suspended(next_msg + 1, "form", i, task_id)}
    /\ UNCHANGED <<server_up, restarts, journal, live, mem, in_queue, loops, delivering,
                   delivered, last_pop, last_lookup, auto_receive, model_path>>
    /\ UNCHANGED not_reg_vars

\* handle_form resumes (server.py 49-55, 125-127): run_from_log of the row read
\* at line 46, then in_queue.put_nowait(UserFormMessage(task_id, post))
HandleFormEnqueues(req) ==
    \E r \in lookups :
        /\ server_up
        /\ r.req = req
        /\ r.handler = "form"
        /\ last_lookup' = lookup_of(r.id, get_model_for_instance(r.id, r.row))
        /\ live' = live \cup {r.id}
        /\ mem' = [mem EXCEPT ![r.id] = state_of(get_model_for_instance(r.id, r.row).instance)]
        /\ in_queue' = [in_queue EXCEPT ![r.id] =
               put_nowait(get_model_for_instance(r.id, r.row).instance.in_queue,
                          [id |-> r.req, kind |-> "UserForm", task_id |-> r.task_id])]
        /\ lookups' = lookups \ {r}
        /\ UNCHANGED <<server_up, restarts, journal, loops, delivering, next_msg, delivered,
                       last_pop, auto_receive, model_path>>
        /\ UNCHANGED not_reg_vars

\* POST /instance/{iid}/task/{tid}/receive up to the await inside the lookup
\* (server.py 130-134, 45-49)
HandleReceiveTask(i, task_id) ==
    /\ server_up
    /\ can_look_up(i)
    /\ next_msg < MaxMessages
    /\ next_msg' = next_msg + 1
    /\ lookups' = lookups \cup {suspended(next_msg + 1, "receive", i, task_id)}
    /\ UNCHANGED <<server_up, restarts, journal, live, mem, in_queue, loops, delivering,
                   delivered, last_pop, last_lookup, auto_receive, model_path>>
    /\ UNCHANGED not_reg_vars

\* handle_receive_task resumes (server.py 49-55, 135-137): run_from_log of the
\* row read at line 46, then in_queue.put_nowait(ReceiveMessage(task_id, data))
HandleReceiveTaskEnqueues(req) ==
    \E r \in lookups :
        /\ server_up
        /\ r.req = req
        /\ r.handler = "receive"
        /\ last_lookup' = lookup_of(r.id, get_model_for_instance(r.id, r.row))
        /\ live' = live \cup {r.id}
        /\ mem' = [mem EXCEPT ![r.id] = state_of(get_model_for_instance(r.id, r.row).instance)]
        /\ in_queue' = [in_queue EXCEPT ![r.id] =
               put_nowait(get_model_for_instance(r.id, r.row).instance.in_queue,
                          [id |-> r.req, kind |-> "Receive", task_id |-> r.task_id])]
        /\ lookups' = lookups \ {r}
        /\ UNCHANGED <<server_up, restarts, journal, loops, delivering, next_msg, delivered,
                       last_pop, auto_receive, model_path>>
        /\ UNCHANGED not_reg_vars

\* POST /model/{model}/task/{tid}/receive up to its awaits (server.py 140-148):
\* create_instance, asyncio.create_task(instance.run()), then the handler is
\* suspended at asyncio.sleep and request.json()
HandleAutoReceive(i, task_id) ==
    /\ server_up
    /\ i \in uuid4(ids_in_use)
    /\ next_msg < MaxMessages
    /\ next_msg' = next_msg + 1
    /\ \E m \in create_models : model_path' = [model_path EXCEPT ![i] = m]
    /\ live' = live \cup {i}
    /\ mem' = [mem EXCEPT ![i] = create_instance]
    /\ in_queue' = [in_queue EXCEPT ![i] = <<>>]
    /\ journal' = [journal EXCEPT ![i] = journal_entry(create_instance, <<>>)]
    /\ loops' = [loops EXCEPT ![i] = @ + 1]
    /\ auto_receive' = auto_receive \cup {[req |-> next_msg + 1, id |-> i, task_id |-> task_id]}
    /\ UNCHANGED <<server_up, restarts, delivering, delivered, last_pop, last_lookup, lookups>>
    /\ UNCHANGED not_reg_vars

\* handle_auto_receive goes on into the lookup (server.py 149-151, 45-49): the
\* journal row is read and the handler is suspended again
AutoReceiveReadsRow(req) ==
    \E a \in auto_receive :
        /\ server_up
        /\ a.req = req
        /\ lookups' = lookups \cup {suspended(a.req, "auto", a.id, a.task_id)}
        /\ auto_receive' = auto_receive \ {a}
        /\ UNCHANGED <<server_up, restarts, journal, live, mem, in_queue, loops, delivering,
                       next_msg, delivered, last_pop, last_lookup, model_path>>
        /\ UNCHANGED not_reg_vars

\* handle_auto_receive resumes (server.py 49-55, 152-153): run_from_log of the
\* row read at line 46, then in_queue.put_nowait(ReceiveMessage(task_id, data))
AutoReceiveEnqueues(req) ==
    \E r \in lookups :
        /\ server_up
        /\ r.req = req
        /\ r.handler = "auto"
        /\ last_lookup' = lookup_of(r.id, get_model_for_instance(r.id, r.row))
        /\ live' = live \cup {r.id}
        /\ mem' = [mem EXCEPT ![r.id] = state_of(get_model_for_instance(r.id, r.row).instance)]
        /\ in_queue' = [in_queue EXCEPT ![r.id] =
               put_nowait(get_model_for_instance(r.id, r.row).instance.in_queue,
                          [id |-> r.req, kind |-> "Receive", task_id |-> r.task_id])]
        /\ lookups' = lookups \ {r}
        /\ UNCHANGED <<server_up, restarts, journal, loops, delivering, next_msg, delivered,
                       last_pop, auto_receive, model_path>>
        /\ UNCHANGED not_reg_vars

\* the handlers that look an instance up and only answer with its to_json()
\* (server.py 202, 220-228, 231-260, 263-272)
ReadHandlers == {"state", "info", "statews", "search"}

\* GET /instance/{iid}/state up to the await inside the lookup
\* (server.py 263-266, 45-49)
HandleInstanceState(i) ==
    /\ server_up
    /\ can_look_up(i)
    /\ next_msg < MaxMessages
    /\ next_msg' = next_msg + 1
    /\ lookups' = lookups \cup {suspended(next_msg + 1, "state", i, "")}
    /\ UNCHANGED <<server_up, restarts, journal, live, mem, in_queue, loops, delivering,
                   delivered, last_pop, last_lookup, auto_receive, model_path>>
    /\ UNCHANGED not_reg_vars

\* GET /instance/{iid} up to the await inside the lookup (server.py 220-223, 45-49)
HandleInstanceInfo(i) ==
    /\ server_up
    /\ can_look_up(i)
    /\ next_msg < MaxMessages
    /\ next_msg' = next_msg + 1
    /\ lookups' = lookups \cup {suspended(next_msg + 1, "info", i, "")}
    /\ UNCHANGED <<server_up, restarts, journal, live, mem, in_queue, loops, delivering,
                   delivered, last_pop, last_lookup, auto_receive, model_path>>
    /\ UNCHANGED not_reg_vars

\* GET /instance/{iid}/statews, one turn of its "while state != 'finished'"
\* loop up to the await inside the lookup (server.py 231-246, 45-49); the loop
\* never assigns state, so that it takes a turn every three seconds while the
\* socket is open
HandleInstanceStateWs(i) ==
    /\ server_up
    /\ can_look_up(i)
    /\ next_msg < MaxMessages
    /\ next_msg' = next_msg + 1
    /\ lookups' = lookups \cup {suspended(next_msg + 1, "statews", i, "")}
    /\ UNCHANGED <<server_up, restarts, journal, live, mem, in_queue, loops, delivering,
                   delivered, last_pop, last_lookup, auto_receive, model_path>>
    /\ UNCHANGED not_reg_vars

\* GET /instance?q=..., one turn of "for _id in ids" up to the await inside the
\* lookup (server.py 201-202, 45-49): the ids are keys of m.instances
SearchInstanceLooksUp(i) ==
    /\ server_up
    /\ i \in live
    /\ can_look_up(i)
    /\ next_msg < MaxMessages
    /\ next_msg' = next_msg + 1
    /\ lookups' = lookups \cup {suspended(next_msg + 1, "search", i, "")}
    /\ UNCHANGED <<server_up, restarts, journal, live, mem, in_queue, loops, delivering,
                   delivered, last_pop, last_lookup, auto_receive, model_path>>
    /\ UNCHANGED not_reg_vars

\* the lookup of a handler that only reads resumes (server.py 49-55):
\* run_from_log of the row read at line 46; then handle_instance_info (224-228),
\* handle_instance_state_ws (247-252), handle_instance_state (267-272) and
\* search_instance (202) answer with the instance's to_json()
LookupReturns(req) ==
    \E r \in lookups :
        /\ server_up
        /\ r.req = req
        /\ r.handler \in ReadHandlers
        /\ last_lookup' = lookup_of(r.id, get_model_for_instance(r.id, r.row))
        /\ live' = live \cup {r.id}
        /\ mem' = [mem EXCEPT ![r.id] = state_of(get_model_for_instance(r.id, r.row).instance)]
        /\ in_queue' = [in_queue EXCEPT ![r.id] =
               get_model_for_instance(r.id, r.row).instance.in_queue]
        /\ lookups' = lookups \ {r}
        /\ UNCHANGED <<server_up, restarts, journal, loops, delivering, next_msg, delivered,
                       last_pop, auto_receive, model_path>>
        /\ UNCHANGED not_reg_vars

\* The scheduler loop of instance i (spec.md section 4.5): every pending vertex
\* is Waiting and the inbox is empty: state = waiting. Journaled (section 4.7).
SchedulerWaits(i) ==
    /\ server_up /\ i \in live /\ Len(delivering[i]) < loops[i]
    /\ mem[i].state = "running"
    /\ mem[i].pending # {}
    /\ in_queue[i] = <<>>
    /\ mem' = [mem EXCEPT ![i].state = "waiting"]
    /\ journal' = [journal EXCEPT ![i] = journal_entry(mem'[i], @.unconsumed)]
    /\ UNCHANGED <<server_up, restarts, live, in_queue, loops, delivering, next_msg,
                   delivered, last_pop, last_lookup>>
    /\ UNCHANGED <<auto_receive, model_path, lookups>>
    /\ UNCHANGED not_reg_vars

\* The scheduler loop of instance i (spec.md section 4.5): msg = inbox.pop().
\* The message_received entry is appended to the journal (section 4.7), and the
\* journal write is a suspension point (section 5): the loop holds msg until the
\* write is done.
SchedulerPops(i) ==
    /\ server_up /\ i \in live /\ Len(delivering[i]) < loops[i]
    /\ mem[i].state \in {"running", "waiting"}
    /\ in_queue[i] # <<>>
    /\ in_queue' = [in_queue EXCEPT ![i] = Tail(@)]
    /\ delivering' = [delivering EXCEPT ![i] = Append(@, Head(in_queue[i]))]
    /\ journal' = [journal EXCEPT ![i].unconsumed = Append(@, Head(in_queue[i]))]
    /\ UNCHANGED <<server_up, restarts, live, mem, loops, next_msg, delivered,
                   last_pop, last_lookup>>
    /\ UNCHANGED <<auto_receive, model_path, lookups>>
    /\ UNCHANGED not_reg_vars

\* The scheduler loop of instance i goes on (spec.md section 4.5): deliver msg
\* to vertex msg.task_id in pending (if present), else drop. The vertex copies
\* the payload into variables and its token moves on; with no token left the
\* instance is finished. Journaled (section 4.7): the message is consumed.
SchedulerDelivers(i, next) ==
    LET msg == Head(delivering[i])
        target_pending == msg.task_id \in mem[i].pending
        after == IF target_pending
                 THEN [pending |-> (mem[i].pending \ {msg.task_id}) \cup next,
                       variables |-> dict_set(mem[i].variables, msg.task_id, msg.id),
                       state |-> IF (mem[i].pending \ {msg.task_id}) \cup next = {}
                                 THEN "finished" ELSE "running"]
                 ELSE mem[i]
    IN  /\ server_up /\ i \in live
        /\ delivering[i] # <<>>
        /\ next \in successors(msg.task_id)
        /\ delivering' = [delivering EXCEPT ![i] = Tail(@)]
        /\ mem' = [mem EXCEPT ![i] = after]
        /\ journal' = [journal EXCEPT ![i] = journal_entry(after, consumed(@.unconsumed, msg))]
        /\ delivered' = IF target_pending
                        THEN [delivered EXCEPT ![msg.id] = @ + 1] ELSE delivered
        /\ last_pop' = [kind |-> IF target_pending THEN "delivered" ELSE "dropped",
                        msg |-> msg, before |-> mem[i], after |-> after]
        /\ UNCHANGED <<server_up, restarts, live, in_queue, loops, next_msg, last_lookup>>
        /\ UNCHANGED <<auto_receive, model_path, lookups>>
        /\ UNCHANGED not_reg_vars

\* the server process stops: the instance table, the inboxes, the run tasks and
\* the suspended handlers live in its memory; the journal is kept by the database
Stop ==
    /\ server_up
    /\ restarts < MaxRestarts
    /\ server_up' = FALSE
    /\ restarts' = restarts + 1
    /\ live' = {}
    /\ mem' = [i \in RegIds |-> NoInstance]
    /\ in_queue' = [i \in RegIds |-> <<>>]
    /\ loops' = [i \in RegIds |-> 0]
    /\ delivering' = [i \in RegIds |-> <<>>]
    /\ auto_receive' = {}
    /\ lookups' = {}
    /\ UNCHANGED <<journal, next_msg, delivered, last_pop, last_lookup, model_path>>
    /\ UNCHANGED not_reg_vars

\* run_as_server (server.py 58-76), the startup hook: create_models, then for
\* every instance of get_instances_log(state="running") whose model_path is a
\* loaded model: create_instance (which writes the journal record of the id, as
\* for a new instance), run_from_log of the events read before, and
\* asyncio.create_task(instance.run())
run_as_server ==
    LET logs == { i \in get_instances_log("running") : model_path[i] \in create_models }
        recovered(i) == run_from_log(instance_object(create_instance, <<>>), journal[i])
    IN  /\ ~server_up
        /\ server_up' = TRUE
        /\ live' = logs
        /\ journal' = [i \in RegIds |-> IF i \in logs
                                        THEN journal_entry(create_instance, <<>>)
                                        ELSE journal[i]]
        /\ mem' = [i \in RegIds |-> IF i \in logs THEN state_of(recovered(i)) ELSE NoInstance]
        /\ in_queue' = [i \in RegIds |-> IF i \in logs THEN recovered(i).in_queue ELSE <<>>]
        /\ loops' = [i \in RegIds |-> IF i \in logs THEN 1 ELSE 0]
        /\ UNCHANGED <<restarts, delivering, next_msg, delivered, last_pop, last_lookup>>
        /\ UNCHANGED <<auto_receive, model_path, lookups>>
        /\ UNCHANGED not_reg_vars

RegNext ==
    \/ \E i \in RegIds : HandleNewInstance(i)
    \/ \E i \in RegIds, t \in TaskIds : HandleForm(i, t)
    \/ \E req \in MessageIds : HandleFormEnqueues(req)
    \/ \E i \in RegIds, t \in TaskIds : HandleReceiveTask(i, t)
    \/ \E req \in MessageIds : HandleReceiveTaskEnqueues(req)
    \/ \E i \in RegIds, t \in TaskIds : HandleAutoReceive(i, t)
    \/ \E req \in MessageIds : AutoReceiveReadsRow(req)
    \/ \E req \in MessageIds : AutoReceiveEnqueues(req)
    \/ \E i \in RegIds : HandleInstanceState(i)
    \/ \E i \in RegIds : HandleInstanceInfo(i)
    \/ \E i \in RegIds : HandleInstanceStateWs(i)
    \/ \E i \in RegIds : SearchInstanceLooksUp(i)
    \/ \E req \in MessageIds : LookupReturns(req)
    \/ \E i \in RegIds : SchedulerWaits(i)
    \/ \E i \in RegIds : SchedulerPops(i)
    \/ \E i \in RegIds, next \in SUBSET TaskIds : SchedulerDelivers(i, next)
    \/ Stop
    \/ run_as_server

\* ======================================================================
\* The state machines
\* ======================================================================
Init == GwInit /\ SearchIdle /\ TaskIdle /\ CallIdle /\ IsoIdle /\ RegIdle

Next == GwNext

Spec == Init /\ [][Next]_vars

InitSearch == SearchInit /\ GwIdle /\ TaskIdle /\ CallIdle /\ IsoIdle /\ RegIdle

SpecSearch == InitSearch /\ [][SearchNext]_vars

InitTasks == TaskInit /\ GwIdle /\ SearchIdle /\ CallIdle /\ IsoIdle /\ RegIdle

SpecTasks == InitTasks /\ [][TaskNext]_vars

InitCall == CallInit /\ GwIdle /\ SearchIdle /\ TaskIdle /\ IsoIdle /\ RegIdle

SpecCall == InitCall /\ [][CallNext]_vars

InitIsolation == IsoInit /\ GwIdle /\ SearchIdle /\ TaskIdle /\ CallIdle /\ RegIdle

SpecIsolation == InitIsolation /\ [][IsoNext]_vars

InitRegistry == RegInit /\ GwIdle /\ SearchIdle /\ TaskIdle /\ CallIdle /\ IsoIdle

SpecRegistry == InitRegistry /\ [][RegNext]_vars

\* ======================================================================
\* Claims
\* ======================================================================

\* C1: the join of an instance emits its outgoing edges iff exactly
\* incoming-count of the instance's tokens have arrived at it: an arrival fires
\* exactly when it is the incoming-count-th token of the instance to arrive
\* since the join last emitted for it, every other arrival is absorbed (Done)
\* and emits nothing.
C1_JoinFiresIffAllArrived ==
    outcome # "none" =>
        /\ (outcome = "Immediate") <=> (arrived.tokens = element_incoming)
        /\ (outcome = "Done") <=> (arrived.tokens # element_incoming)

\* C2: at the creation of every instance the join counter equals the gateway's
\* incoming-edge count, whatever other instances of the model have done.
C2_CounterAtBirth ==
    \A i \in created : birth_counter[i] = element_incoming

\* C3: each time the join fires its counter is reset to the incoming-edge count,
\* and the counter never goes below zero.
C3_ResetOnFire ==
    /\ (outcome = "Immediate" => incoming = element_incoming)
    /\ incoming >= 0

\* C4: the search ANDs its clauses: for a query of n >= 1 clauses the instances
\* returned are exactly those in the match set of every one of the n clauses.
C4_SearchIntersectsAllClauses ==
    response.status = 200 =>
        LET queries == parse_queries(request.q)
        IN  response.ids =
                { id \in DOMAIN searched :
                    \A n \in 1..Len(queries) :
                        id \in clause_ids_of(searched, queries[n][1], queries[n][2]) }

\* C5: a user task run with a form payload (a JSON object) sets, for every payload
\* key that names a declared form field, the instance variable of that name to the
\* payload value, leaves every other instance variable as it was (also those named
\* by payload keys that are no form fields), and completes with success.
C5_UserTaskCopiesFormFields ==
    (last.kind = "user" /\ last.payload.is_dict) =>
        LET written == DOMAIN last.payload.entries \cap last.task.form_fields
        IN  /\ \A k \in written :
                  k \in DOMAIN variables /\ variables[k] = last.payload.entries[k]
            /\ \A k \in (DOMAIN variables \cup DOMAIN prev_variables) \ written :
                  /\ k \in DOMAIN variables
                  /\ k \in DOMAIN prev_variables
                  /\ variables[k] = prev_variables[k]
            /\ result = "True"
            /\ instance_state = "running"

C5_Witness ==
    /\ last.kind = "user"
    /\ last.payload.is_dict
    /\ last.task.form_fields = {"name"}
    /\ last.payload.entries = ("name" :> "Q") @@ ("note" :> "N")
    /\ "note" \in DOMAIN prev_variables
    /\ prev_variables["name"] = "old"
    /\ variables["name"] = "Q"
    /\ variables["note"] = "old"
    /\ result = "True"

\* C6: a receive task run with a message payload copies exactly the payload
\* entries whose keys are listed in its output_variables into the instance
\* variables, leaves all other variables unchanged, and completes.
C6_ReceiveTaskCopiesOutputVariables ==
    last.kind = "receive" =>
        LET written == DOMAIN last.payload.entries \cap last.task.output_variables
        IN  /\ \A k \in written :
                  k \in DOMAIN variables /\ variables[k] = last.payload.entries[k]
            /\ \A k \in (DOMAIN variables \cup DOMAIN prev_variables) \ written :
                  /\ k \in DOMAIN variables
                  /\ k \in DOMAIN prev_variables
                  /\ variables[k] = prev_variables[k]
            /\ result = "True"
            /\ instance_state = "running"

C6_Witness ==
    /\ last.kind = "receive"
    /\ last.task.output_variables = {"ticket_id"}
    /\ last.payload.entries = ("ticket_id" :> "T-9") @@ ("age" :> "N")
    /\ variables["ticket_id"] = "T-9"
    /\ "age" \notin DOMAIN variables
    /\ "name" \in DOMAIN variables
    /\ result = "True"

\* C7: after a successful connector call, for every declared output name k: if the
\* response body has a top-level field k then variables[k] is that field, whatever
\* k's expression says; otherwise, if k's expression is non-empty, variables[k] is
\* the expression evaluated against the response body.
C7_DirectKeyWins ==
    (last.kind = "service" /\ result = "True") =>
        LET outs == ServiceTasks[last.task].output_variables
            r == IF last.response.json = "ok" THEN last.response.body ELSE EmptyDict
        IN  \A k \in DOMAIN outs :
                /\ k \in DOMAIN r => (k \in DOMAIN variables /\ variables[k] = r[k])
                /\ (k \notin DOMAIN r /\ outs[k] # "") =>
                      (k \in DOMAIN variables /\ variables[k] = parse_expression(outs[k], r))

C7_Witness ==
    /\ last.kind = "service"
    /\ last.task = "lookup"
    /\ result = "True"
    /\ last.response.body = ("ticket_id" :> "N") @@ ("id" :> "T-9")
    /\ variables["ticket_id"] = "N"
    /\ variables["note"] = "${missing}"

\* C8: a serviceTask whose connector id does not resolve through the datasources
\* to an HTTP endpoint succeeds with no side effect: its run reports success as a
\* completed connector call does, makes no HTTP request and leaves the variables.
C8_UnresolvedConnectorSucceeds ==
    (last.kind = "service" /\ ~runs_connector(ServiceTasks[last.task])) =>
        /\ result = "True"
        /\ http_requests = 0
        /\ variables = prev_variables

\* C9: a connector response whose status is outside {200, 201} makes the service
\* task raise instead of completing: no output variable is bound, the token does
\* not proceed, and the owning instance ends in state failed.
C9_BadStatusRaises ==
    (/\ last.kind = "service"
     /\ ServiceTask_parse_connector_id(ServiceTasks[last.task].connectorId) = "http-connector"
     /\ last.response # NoHttpResponse
     /\ last.response.status \notin {200, 201}) =>
        /\ result = "raised"
        /\ variables = prev_variables
        /\ instance_state = "failed"

C9_Witness ==
    /\ last.kind = "service"
    /\ last.task = "create_ticket"
    /\ last.response.status = 404
    /\ "ticket_id" \in DOMAIN last.response.body
    /\ http_requests = 1
    /\ result = "raised"
    /\ variables = prev_variables
    /\ instance_state = "failed"

\* --- C10
\* the child's final value at an out_mapping source, None when it is not present
child_value(final, source) ==
    IF is_dotted(source) THEN nested_dict_get(final, source)
    ELSE IF source \in DOMAIN final THEN final[source] ELSE None

child_has(final, source) ==
    IF is_dotted(source) THEN nested_dict_get(final, source) # None
    ELSE source \in DOMAIN final

\* entry n of out_mapping shares no key with another entry: no other entry has
\* its target, or its source (the top-level key of a dotted one), as target or as
\* undotted source
independent_entry(out_mapping, n) ==
    LET mine == {out_mapping[n][2], source_path(out_mapping[n][1])[1]}
    IN  \A m \in (1..Len(out_mapping)) \ {n} :
            /\ out_mapping[m][2] \notin mine
            /\ ~is_dotted(out_mapping[m][1]) => out_mapping[m][1] \notin mine

only_output_variables_written ==
    \A k \in (DOMAIN parent_variables \cup DOMAIN parent_at_return)
                \ call_activity.output_variables :
        /\ k \in DOMAIN parent_variables
        /\ k \in DOMAIN parent_at_return
        /\ parent_variables[k] = parent_at_return[k]

\* C10 (as stated): when the child finishes, for every out_mapping entry (src, dst)
\* whose src is present in the child's final variables and whose dst is listed in
\* output_variables, the parent's variables[dst] is the child's final value of src;
\* parent variables whose keys are not in output_variables are not written.
C10_OutMappingEveryEntry ==
    call_result = "True" =>
        /\ \A n \in 1..Len(call_activity.out_mapping) :
              LET src == call_activity.out_mapping[n][1]
                  dst == call_activity.out_mapping[n][2]
                  final == finished_subprocess_variables.dict
              IN  (child_has(final, src) /\ dst \in call_activity.output_variables) =>
                      /\ dst \in DOMAIN parent_variables
                      /\ parent_variables[dst] = child_value(final, src)
        /\ only_output_variables_written

\* C10 (amended): the same for every out_mapping entry that shares no key with
\* another entry of the out_mapping (no other entry has its dst, or its src, as
\* target or as undotted source); parent variables whose keys are not in
\* output_variables are not written.
C10_OutMappingIndependentEntries ==
    call_result = "True" =>
        /\ \A n \in 1..Len(call_activity.out_mapping) :
              LET src == call_activity.out_mapping[n][1]
                  dst == call_activity.out_mapping[n][2]
                  final == finished_subprocess_variables.dict
              IN  (/\ child_has(final, src)
                   /\ dst \in call_activity.output_variables
                   /\ independent_entry(call_activity.out_mapping, n)) =>
                      /\ dst \in DOMAIN parent_variables
                      /\ parent_variables[dst] = child_value(final, src)
        /\ only_output_variables_written

C10_Witness ==
    /\ call_result = "True"
    /\ call_activity.out_mapping = << <<"status", "ticket_status">>, <<"result.code", "code">> >>
    /\ child_value(finished_subprocess_variables.dict, "status") = Atom("ok")
    /\ child_has(finished_subprocess_variables.dict, "result.code")
    /\ {"ticket_status", "code"} \subseteq DOMAIN prev_parent_variables
    /\ prev_parent_variables["ticket_status"] = Atom("old")
    /\ parent_variables["ticket_status"] = Atom("ok")
    /\ parent_variables["code"] = Atom("0")

\* C11: when the child of a call activity does not finish (its run yields no
\* final variables), the call activity reports failure, the parent's variables
\* are exactly as they were before the call, and the parent instance is failed
\* instead of continuing on the outgoing edges.
C11_UnfinishedChildFailsParent ==
    (call_result \in {"True", "False"} /\ finished_subprocess_variables = None)
        => /\ call_result = "False"
           /\ parent_variables = prev_parent_variables
           /\ parent_state = "failed"

\* C12: variables are isolated across the call-activity boundary: building the
\* child's initial variables (deep copy, in_mapping, filtering) leaves every
\* parent variable, at every nesting depth, unchanged; and what the child writes
\* to its variables while it runs is not visible in the parent's variables,
\* except through the final write-back of output_variables.
C12_Isolation ==
    /\ iso_pc \in {"running", "raised", "failed"}
          => deep(iso_heap, parent_ref) = iso_before
    /\ iso_pc = "returned"
          => LET now == deep(iso_heap, parent_ref)
                 mapped == transform_output_variables(iso_final, iso_call.out_mapping)
             IN  /\ DOMAIN iso_before \subseteq DOMAIN now
                 /\ DOMAIN now \subseteq DOMAIN iso_before \cup iso_call.output_variables
                 /\ \A k \in DOMAIN iso_before \ iso_call.output_variables :
                        now[k] = iso_before[k]
                 /\ \A k \in DOMAIN now \cap iso_call.output_variables :
                        now[k] = IF k \in DOMAIN mapped THEN mapped[k] ELSE iso_before[k]

\* the child was handed a nested variable of the parent, changed a member of it
\* in place while running, and a variable was written back
C12_Witness ==
    /\ iso_pc = "returned"
    /\ "user" \in DOMAIN iso_before /\ "user" \in DOMAIN iso_final
    /\ "dict" \in DOMAIN iso_before["user"] /\ "dict" \in DOMAIN iso_final["user"]
    /\ iso_final["user"].dict # iso_before["user"].dict
    /\ "owner" \in DOMAIN deep(iso_heap, parent_ref)

\* C13: in every reachable state of an instance, state = finished implies that
\* pending is empty and that at least one endEvent was entered during the run;
\* an instance whose last tokens are absorbed by a parallel join (Done) without
\* reaching an endEvent is not reported as finished.
C13_FinishedReachedEnd ==
    \A i \in created :
        gw_state[i] = "finished" => (pending(i) = 0 /\ ended[i])

\* C14: every message enqueued on an instance's inbox by the form/receive
\* endpoints is delivered at most once, and only to the vertex named by its
\* task_id while that vertex is in the instance's pending set; a message whose
\* target is not pending when it is popped is dropped and changes neither
\* variables nor pending.
C14_InboxDelivery ==
    /\ \A m \in MessageIds : delivered[m] <= 1
    /\ last_pop.kind = "delivered"
          => /\ last_pop.msg.task_id \in last_pop.before.pending
             /\ last_pop.msg.task_id \in DOMAIN last_pop.after.variables
             /\ last_pop.after.variables[last_pop.msg.task_id] = last_pop.msg.id
    /\ last_pop.kind = "dropped"
          => /\ last_pop.msg.task_id \notin last_pop.before.pending
             /\ last_pop.after.variables = last_pop.before.variables
             /\ last_pop.after.pending = last_pop.before.pending

\* C15: after a restart, every journaled instance whose state is neither
\* finished nor failed is reconstructed from its journal and re-enters the
\* scheduler (a run loop is started for it), whether it is rehydrated at startup
\* or on demand by the first request that names it; so that a message enqueued
\* to it is consumed by its loop.
C15_RecoveredInstanceHasLoop ==
    (restarts > 0 /\ server_up)
        => \A i \in RegIds :
              (i \in live /\ journal[i].state \in {"running", "waiting"}) => loops[i] > 0

\* C16: looking up an instance that is already live returns that instance with
\* its (pending, variables, state) unchanged and applies no journal replay to it.
C16_LookupOfLiveInstance ==
    (last_lookup.id # 0 /\ last_lookup.was_live)
        => /\ ~last_lookup.replayed
           /\ last_lookup.unchanged

\* --- C17
\* the number of ":" in a clause
colons(q) == Cardinality({ i \in 1..Len(q) : q[i] = ":" })

\* a request without q, or with a clause that is not one attribute and one value
malformed_query(req) ==
    \/ ~req.has_q
    \/ \E n \in 1..Len(req.q) : colons(req.q[n]) > 1

\* C17: every malformed search query on GET /instance is answered with HTTP 400
\* and an error body, never with an unhandled server error: a missing q
\* parameter, and also a clause with more than one ":".
C17_MalformedSearchIs400 ==
    (request # NoRequest /\ malformed_query(request)) => response.status = 400

\* C18: model objects are immutable after parsing with respect to service-task
\* execution: running a service task's connector leaves the task's declared
\* input_variables (map- and list-valued entries holding ${...} expressions
\* included) exactly as parsed, so that a later execution of the same task
\* resolves the same expressions against its own current variables.
C18_InputVariablesAsParsed ==
    \A id \in ServiceTaskIds : input_variables[id] = ParsedInputVariables[id]

\* C19: in_mapping rename: for every in_mapping entry (src, dst) whose src
\* contains no "." and is a key of the parent's variables, the mapped copy used
\* to build the child's variables holds the parent's value of src under key dst
\* and no longer has key src, whether or not src is listed in input_variables.
C19_InMappingRenames ==
    (call_result # "none" \/ call_pc = "child_running")
        => \A n \in 1..Len(call_activity.in_mapping) :
              LET src == call_activity.in_mapping[n][1]
                  dst == call_activity.in_mapping[n][2]
                  copied == mapped_copy(call_activity, prev_parent_variables)
              IN  (~is_dotted(src) /\ src \in DOMAIN prev_parent_variables)
                      => /\ ~copied.raised
                         /\ dst \in DOMAIN copied.d
                         /\ copied.d[dst] = prev_parent_variables[src]
                         /\ src \notin DOMAIN copied.d

\* C20: the child instance's initial variables contain only keys named in the
\* call activity's input_variables, and every input_variables key present in
\* the mapped copy of the parent's variables appears in the child with that value.
C20_ChildGetsInputVariablesOnly ==
    (call_result \in {"True", "False"} \/ call_pc = "child_running")
        => LET copied == mapped_copy(call_activity, prev_parent_variables).d
           IN  /\ DOMAIN inital_variables \subseteq call_activity.input_variables
               /\ \A k \in call_activity.input_variables \cap DOMAIN copied :
                      k \in DOMAIN inital_variables /\ inital_variables[k] = copied[k]

\* a child created from a mapped copy that holds keys outside input_variables
\* and a renamed key inside it
C20_Witness ==
    /\ call_result \in {"True", "False"}
    /\ "customer" \in DOMAIN inital_variables
    /\ "customer" \notin DOMAIN prev_parent_variables
    /\ DOMAIN mapped_copy(call_activity, prev_parent_variables).d
           \ call_activity.input_variables # {}

\* C21: out_mapping skips absent keys: for every out_mapping entry (src, dst)
\* whose src (a plain key or a dotted path) is not present in the child's final
\* variables, applying the mapping adds no dst key to the mapped result and does
\* not raise, so the parent's variables[dst] is not written for that entry.
\* Stated for the entries that share no key with another entry, so that a dst
\* in the mapped result can only come from the child or from this entry.
C21_OutMappingSkipsAbsent ==
    call_result = "True" =>
        \A n \in 1..Len(call_activity.out_mapping) :
            LET src == call_activity.out_mapping[n][1]
                dst == call_activity.out_mapping[n][2]
                final == finished_subprocess_variables.dict
            IN  (~child_has(final, src) /\ independent_entry(call_activity.out_mapping, n))
                    => /\ dst \in DOMAIN new_vars
                          => (dst \in DOMAIN final /\ new_vars[dst] = final[dst])
                       /\ (dst \notin DOMAIN final /\ dst \in DOMAIN parent_variables)
                          => /\ dst \in DOMAIN parent_at_return
                             /\ parent_variables[dst] = parent_at_return[dst]

\* C22: a connector response with status 200/201 whose body cannot be decoded
\* as JSON (a non-JSON content type, or a body that is not valid JSON) is
\* tolerated: the call yields an empty object, the service task still completes
\* successfully, and no error is raised.
C22_UndecodableBodyTolerated ==
    (/\ last.kind = "service"
     /\ runs_connector(ServiceTasks[last.task])
     /\ task_pc = "idle"
     /\ last.response.status \in {200, 201}
     /\ last.response.json # "ok")
        => /\ result = "True"
           /\ instance_state = "running"
           /\ variables = bind_outputs(ServiceTasks[last.task].output_variables,
                                       prev_variables, EmptyDict)

\* --- C24
\* entry n of in_mapping has a dotted source whose top-level key is also the
\* top-level key of another dotted source
shares_top_level_key(in_mapping, n) ==
    /\ is_dotted(in_mapping[n][1])
    /\ \E m \in (1..Len(in_mapping)) \ {n} :
          /\ is_dotted(in_mapping[m][1])
          /\ source_path(in_mapping[m][1])[1] = source_path(in_mapping[n][1])[1]

\* C24: in_mapping entries with dotted sources are applied independently of each
\* other: when several sources share the same top-level key (user.name and
\* user.email), each destination receives the value found at its path in the
\* parent's variables, whatever the order of the entries, and applying the
\* mapping does not raise. Stated for a parent that holds the top-level key.
C24_DottedSourcesIndependent ==
    (call_result # "none" \/ call_pc = "child_running") =>
        \A n \in 1..Len(call_activity.in_mapping) :
            LET src == call_activity.in_mapping[n][1]
                dst == call_activity.in_mapping[n][2]
                copied == mapped_copy(call_activity, prev_parent_variables)
            IN  (/\ shares_top_level_key(call_activity.in_mapping, n)
                 /\ source_path(src)[1] \in DOMAIN prev_parent_variables)
                    => /\ call_result # "raised"
                       /\ ~copied.raised
                       /\ dst \in DOMAIN copied.d
                       /\ copied.d[dst] = nested_dict_get(prev_parent_variables, src)

\* C23: per-instance serialization: under any interleaving of instance creation
\* requests, startup recovery and form/receive/state requests, at most one
\* scheduler loop (run task) exists for a given instance id at any time, so that
\* no two element behaviours of one instance run concurrently on its variables.
C23_OneLoopPerInstance ==
    \A i \in RegIds :
        /\ loops[i] <= 1
        /\ Len(delivering[i]) <= 1

\* after a restart one instance runs in the loop that startup recovery gave it,
\* another in the loop of the request that created it; a request has looked up
\* a live instance, another lookup is suspended, and a loop holds a message it
\* has popped
C23_Witness ==
    /\ restarts > 0
    /\ server_up
    /\ \A i \in RegIds : loops[i] = 1
    /\ \E i \in RegIds : delivering[i] # <<>>
    /\ lookups # {}
    /\ last_lookup.id # 0 /\ last_lookup.was_live

=============================================================================
